---- MODULE Spec2Model ----
(***************************************************************************)
(* Model of the Bedrock resilience layer of raganything:                   *)
(*   - BedrockCache          (raganything/bedrock/cache.py)                *)
(*   - BedrockRetryHandler   (raganything/bedrock/retry_handler.py)        *)
(*   - BedrockRateLimiter    (raganything/bedrock/cache.py)                *)
(*   - BedrockBatchProcessor (raganything/bedrock/cache.py)                *)
(*   - BedrockLLMProvider    (raganything/bedrock/llm_provider.py)         *)
(*   - BedrockVisionProvider (raganything/bedrock/vision_provider.py)      *)
(*   - BedrockEmbeddingProvider (raganything/bedrock/embedding_provider.py) *)
(*   - BedrockPerformanceMonitor (raganything/bedrock/cache.py)            *)
(* Each component has its own specification over the shared variables; the *)
(* variables of the other components stay at their initial values.         *)
(*                                                                         *)
(* Conventions.  Python's Optional[T] is a sequence of length 0 (None) or  *)
(* 1 (<<x>>).  Time is counted in integer ticks of the clock.              *)
(***************************************************************************)
EXTENDS Integers, Sequences, FiniteSets, TLC

VARIABLES
    \* ---- BedrockCache ----
    max_size,       \* self.max_size
    cache,          \* self.cache: dict key -> CacheEntry (a function on the stored keys)
    access_order,   \* self.access_order: list of keys, least recently used first
    now,            \* the value time.time() returns
    lastOp,         \* history: the last cache operation, its key and return value
    putAt,          \* history: per stored key, the arguments and time of its last put
    recency,        \* history: per key, its rank among the stored keys by last touch
    putRun          \* history: the keys put so far, while only puts of fresh keys happened

VARIABLES
    \* ---- BedrockRetryHandler.execute_with_retry, one call ----
    r_max_attempts,     \* self.config.max_attempts
    r_script,           \* what the operation does on its successive invocations
    r_pc,               \* "attempt", "sleeping", "returned" or "raised"; "off" outside SpecRetry
    r_attempt,          \* the loop variable attempt
    r_last_exception,   \* the local last_exception
    r_ncalls,           \* history: how often the operation has been invoked
    r_sleeps,           \* history: the asyncio.sleep calls made, in order
    r_result,           \* the value returned, once r_pc = "returned"
    r_raised            \* the exception raised, once r_pc = "raised"

VARIABLES
    \* ---- BedrockRetryHandler.calculate_backoff, one call ----
    b_in,               \* the configuration and the argument attempt
    b_out               \* the jitter drawn and the delay returned

VARIABLES
    \* ---- BedrockRateLimiter ----
    rl_tokens,          \* self.tokens, counted in 1/RpsDen of a token
    rl_last_update,     \* self.last_update
    rl_now,             \* the clock: time.time() and the event loop's time
    rl_holder,          \* self.lock: the caller that holds it, if any
    rl_waiters,         \* self.lock: the callers waiting for it, in arrival order
    rl_pc,              \* per caller: "idle", "waiting" (for the lock) or "sleeping"
    rl_sleep,           \* the pending asyncio.sleep(wait_time) of the holder
    rl_log              \* history: the calls that entered the critical section, in order

VARIABLES
    \* ---- BedrockBatchProcessor ----
    pending_requests,   \* self.pending_requests; a request also records when it was added
    bp_holder,          \* self._batch_lock: the task that holds it, if any
    bp_waiters,         \* self._batch_lock: the tasks waiting for it, in arrival order
    bp_future,          \* per caller, the future created by its add_request
    bp_pc,              \* per task, where it is in add_request or flush
    bp_timer,           \* per caller, when the timeout of its wait_for expires
    bp_now,             \* the event loop's clock
    bp_calls,           \* history: the invocations of processor functions, in order
    bp_ret,             \* per caller, what add_request returned or raised
    bp_flush,           \* history: what flush() found when it was called and ran
    bp_submitted        \* history: the callers of add_request, in the order of their calls

VARIABLES
    \* ---- BedrockLLMProvider / BedrockVisionProvider ----
    pv_kind,            \* which of the two classes the provider is
    pv_max,             \* config.max_concurrent_requests
    pv_value,           \* self._semaphore: the permits left
    pv_waiters,         \* self._semaphore: the tasks waiting for a permit, in order
    pv_pc,              \* per task, where it is in complete / analyze_image
    pv_attempt,         \* per task, the loop variable attempt of execute_with_retry
    pv_request,         \* per task, the request it made
    pv_trace,           \* history: per task, the steps its call has made
    pv_ret,             \* per task, "returned", "raised" or "cancelled" once its
                        \* call is over
    pv_seen,            \* history: per task, whether its request had succeeded before
    pv_error            \* history: per task, what its last remote call raised

VARIABLES
    \* ---- BedrockEmbeddingProvider.embed_texts, one call ----
    em_texts,           \* the argument texts
    em_pc,              \* where the call is
    em_i,               \* the position in texts of the text being processed
    em_attempt,         \* the loop variable attempt of execute_with_retry
    em_embeddings,      \* the embeddings collected so far
    em_invoked,         \* history: how often the remote model was invoked
    em_failed,          \* history: the positions whose execute_with_retry raised
    em_ret              \* the list returned, once the call is over

VARIABLES
    \* ---- BedrockLLMProvider.complete_batch, one call ----
    cb_prompts,         \* the argument prompts
    cb_pc,              \* where the call is
    cb_results,         \* per prompt, the outcome of its call of complete
    cb_ret              \* the list returned, once the call is over

VARIABLES
    \* ---- BedrockRetryHandler.should_retry, one call ----
    sr_error,           \* the argument error
    sr_retryable_errors, \* config.retryable_errors
    sr_out              \* the value returned, once the call is over

VARIABLES
    \* ---- BedrockPerformanceMonitor ----
    metrics,            \* self.metrics
    request_times,      \* self.request_times
    mon_recorded,       \* history: the response times recorded since the
                        \* monitor was constructed or last reset
    mon_op,             \* history: the last method called and what it returned
    mon_nops            \* history: how many methods have been called

cacheVars == <<max_size, cache, access_order, now, lastOp, putAt, recency, putRun>>

retryVars == <<r_max_attempts, r_script, r_pc, r_attempt, r_last_exception,
               r_ncalls, r_sleeps, r_result, r_raised>>

backoffVars == <<b_in, b_out>>

limiterVars == <<rl_tokens, rl_last_update, rl_now, rl_holder, rl_waiters, rl_pc,
                 rl_sleep, rl_log>>

batchVars == <<pending_requests, bp_holder, bp_waiters, bp_future, bp_pc, bp_timer,
               bp_now, bp_calls, bp_ret, bp_flush, bp_submitted>>

providerVars == <<pv_kind, pv_max, pv_value, pv_waiters, pv_pc, pv_attempt, pv_request,
                  pv_trace, pv_ret, pv_seen, pv_error>>

embedVars == <<em_texts, em_pc, em_i, em_attempt, em_embeddings, em_invoked, em_failed,
               em_ret>>

gatherVars == <<cb_prompts, cb_pc, cb_results, cb_ret>>

classifyVars == <<sr_error, sr_retryable_errors, sr_out>>

monitorVars == <<metrics, request_times, mon_recorded, mon_op, mon_nops>>

vars == <<cacheVars, retryVars, backoffVars, limiterVars, batchVars, providerVars,
          embedVars, gatherVars, classifyVars, monitorVars>>

-----------------------------------------------------------------------------
(* Bounds of the model *)

MaxAttemptsCfg == 3 \* max_attempts ranges over 1..MaxAttemptsCfg
MaxAttemptIdx == 4  \* calculate_backoff is called for attempt in 0..MaxAttemptIdx
RlMaxTime == 3      \* the limiter's clock runs over 0..RlMaxTime
BpMaxTime == 3      \* the batch processor's clock runs over 0..BpMaxTime
MaxCalls == 4       \* acquire() is called at most MaxCalls times

MaxTime == 2        \* the clock runs over 0..MaxTime
MaxAccess == 1      \* CacheEntry.access_count is followed up to this value

(* Arguments of the constructor and of the operations *)

MaxSizes == {1, 2}  \* BedrockCache(max_size, ...)
DefaultTtlCfg == 1  \* BedrockCache(..., default_ttl = 1), in clock ticks

Keys == {"a", "b", "c"}
Values == {1, 2}
None == <<>>
Some(x) == <<x>>
TtlArgs == {None, Some(0), Some(1)}   \* the ttl argument of put

-----------------------------------------------------------------------------
(* CacheEntry *)

CacheEntry(data, timestamp, ttl) ==
    [data |-> data, timestamp |-> timestamp, ttl |-> ttl, access_count |-> 0]

\* a slip: the operands of the subtraction swapped
is_expired_swapped(entry, t) ==
    IF entry.ttl = None THEN FALSE
    ELSE entry.timestamp - t > entry.ttl[1]

is_expired(entry, t) ==
    IF entry.ttl = None THEN FALSE
    ELSE t - entry.timestamp > entry.ttl[1]

access(entry) == [entry EXCEPT !.access_count = @ + 1]

-----------------------------------------------------------------------------
(* BedrockCache: every method is a function from the object's state        *)
(* st = [cache, access_order] to its state afterwards.                     *)

\* list.remove(k): drops the first occurrence of k
RECURSIVE ListRemove(_, _)
ListRemove(s, k) ==
    IF s = <<>> THEN <<>>
    ELSE IF Head(s) = k THEN Tail(s)
    ELSE <<Head(s)>> \o ListRemove(Tail(s), k)

InList(s, k) == \E i \in 1..Len(s) : s[i] = k

DictDel(d, k) == [x \in (DOMAIN d) \ {k} |-> d[x]]

DictSet(d, k, e) == [x \in (DOMAIN d) \cup {k} |-> IF x = k THEN e ELSE d[x]]

\* a slip: a key already in the list keeps its place
MoveToEnd_keeps_place(order, key) ==
    IF InList(order, key) THEN order ELSE Append(order, key)

MoveToEnd(order, key) ==
    Append(IF InList(order, key) THEN ListRemove(order, key) ELSE order, key)

\* a slip: the key stays in access_order
remove_keeps_order(st, key) ==
    [cache |-> IF key \in DOMAIN st.cache THEN DictDel(st.cache, key) ELSE st.cache,
     access_order |-> st.access_order]

remove(st, key) ==
    LET c == IF key \in DOMAIN st.cache THEN DictDel(st.cache, key) ELSE st.cache
        o == IF InList(st.access_order, key)
             THEN ListRemove(st.access_order, key) ELSE st.access_order
    IN  [cache |-> c, access_order |-> o]

clear(st) == [cache |-> <<>>, access_order |-> <<>>]

\* a slip: the loop stops one entry too early
RECURSIVE _evict_one_too_few(_, _)
_evict_one_too_few(st, limit) ==
    IF Cardinality(DOMAIN st.cache) > limit + 1 /\ st.access_order # <<>>
    THEN LET lru_key == Head(st.access_order)
             c == IF lru_key \in DOMAIN st.cache
                  THEN DictDel(st.cache, lru_key) ELSE st.cache
         IN  _evict_one_too_few([cache |-> c, access_order |-> Tail(st.access_order)],
                                limit)
    ELSE st

RECURSIVE _evict_if_needed(_, _)
_evict_if_needed(st, limit) ==
    IF Cardinality(DOMAIN st.cache) > limit /\ st.access_order # <<>>
    THEN LET lru_key == Head(st.access_order)
             c == IF lru_key \in DOMAIN st.cache
                  THEN DictDel(st.cache, lru_key) ELSE st.cache
         IN  _evict_if_needed([cache |-> c, access_order |-> Tail(st.access_order)],
                              limit)
    ELSE st

\* a slip: an expired entry leaves the mapping but stays in the recency list
get_keeps_order(st, key, t) ==
    IF key \notin DOMAIN st.cache THEN [st |-> st, ret |-> None]
    ELSE LET entry == st.cache[key] IN
         IF is_expired(entry, t)
         THEN [st |-> [st EXCEPT !.cache = DictDel(st.cache, key)], ret |-> None]
         ELSE [st  |-> [cache |-> DictSet(st.cache, key, access(entry)),
                        access_order |-> MoveToEnd(st.access_order, key)],
               ret |-> Some(entry.data)]

\* get returns the pair [st, ret]
get(st, key, t) ==
    IF key \notin DOMAIN st.cache THEN [st |-> st, ret |-> None]
    ELSE LET entry == st.cache[key] IN
         IF is_expired(entry, t) THEN [st |-> remove(st, key), ret |-> None]
         ELSE [st  |-> [cache |-> DictSet(st.cache, key, access(entry)),
                        access_order |-> MoveToEnd(st.access_order, key)],
               ret |-> Some(entry.data)]

\* a slip: a put with no ttl stores an entry with no ttl
put_no_default(st, key, data, ttlArg, t, limit, default_ttl) ==
    LET entry == CacheEntry(data, t, ttlArg)
    IN  _evict_if_needed([cache |-> DictSet(st.cache, key, entry),
                          access_order |-> MoveToEnd(st.access_order, key)],
                         limit)

put(st, key, data, ttlArg, t, limit, default_ttl) ==
    LET ttl == IF ttlArg = None THEN Some(default_ttl) ELSE ttlArg
        entry == CacheEntry(data, t, ttl)
    IN  _evict_if_needed([cache |-> DictSet(st.cache, key, entry),
                          access_order |-> MoveToEnd(st.access_order, key)],
                         limit)

expired_keys(st, t) == {k \in DOMAIN st.cache : is_expired(st.cache[k], t)}

RECURSIVE RemoveAll(_, _)
RemoveAll(st, ks) ==
    IF ks = {} THEN st
    ELSE LET k == CHOOSE x \in ks : TRUE IN RemoveAll(remove(st, k), ks \ {k})

\* a slip: the expired keys leave the mapping but stay in the recency list
cleanup_expired_mapping_only(st, t) ==
    LET ks == expired_keys(st, t)
    IN  [st |-> [st EXCEPT !.cache = [k \in (DOMAIN st.cache) \ ks |-> st.cache[k]]],
         ret |-> Cardinality(ks)]

cleanup_expired(st, t) ==
    LET ks == expired_keys(st, t)
    IN  [st |-> RemoveAll(st, ks), ret |-> Cardinality(ks)]

-----------------------------------------------------------------------------
(* History variables of the cache *)

Stored(r) == {k \in Keys : r[k] > 0}

\* key becomes the most recently touched stored key
Touch(r, key) ==
    IF r[key] = 0
    THEN [r EXCEPT ![key] = Cardinality(Stored(r)) + 1]
    ELSE [x \in Keys |-> IF x = key THEN Cardinality(Stored(r))
                         ELSE IF r[x] > r[key] THEN r[x] - 1 ELSE r[x]]

\* the keys of gone leave the store; the others keep their relative order
Drop(r, gone) ==
    [x \in Keys |-> IF x \in gone THEN 0
                    ELSE r[x] - Cardinality({y \in gone : r[y] > 0 /\ r[y] < r[x]})]

\* the n least recently touched stored keys
LeastRecent(r, n) == {k \in Keys : r[k] > 0 /\ r[k] <= n}

\* the history of the puts, kept for the keys that are stored in c
KeepStored(p, c) == [k \in Keys |-> IF k \in DOMAIN c THEN p[k] ELSE None]

\* the ttl a put with argument ttlArg asks for
EffectiveTtl(ttlArg) == IF ttlArg = None THEN DefaultTtlCfg ELSE ttlArg[1]

\* what the history says about key when get(key) is called:
\*   "none"     key is not stored (never put, or gone since its last put)
\*   "elapsed"  more than the ttl has elapsed since its last put
\*   "fresh"    the put of key was the previous operation, its ttl has not elapsed
\*   "live"     stored, ttl not elapsed, other operations since its put
HistOf(key) ==
    IF putAt[key] = None THEN "none"
    ELSE LET p == putAt[key][1] IN
         IF now - p.time > p.ttl THEN "elapsed"
         ELSE IF lastOp.op = "put" /\ lastOp.key = key THEN "fresh"
         ELSE "live"

Op(op, key, ret) ==
    [op |-> op, key |-> key, ret |-> ret,
     hist |-> "none", expect |-> None, evicted |-> {}, lru |-> {},
     nottl |-> {}, kept |-> {}]

\* the keys among ks that were stored by a put with ttl = None, and those of
\* them for which no more than default_ttl has elapsed since that put
PutWithoutTtl(ks) == {k \in ks : putAt[k] # None /\ putAt[k][1].arg = None}
WithinDefaultTtl(ks) == {k \in PutWithoutTtl(ks) : now - putAt[k][1].time <= putAt[k][1].ttl}

St == [cache |-> cache, access_order |-> access_order]

-----------------------------------------------------------------------------
(* Actions of the cache specification *)

NotCache ==
    <<retryVars, backoffVars, limiterVars, batchVars, providerVars, embedVars, gatherVars, classifyVars,
                monitorVars>>

CacheInit ==
    /\ max_size \in MaxSizes
    /\ cache = <<>>
    /\ access_order = <<>>
    /\ now = 0
    /\ lastOp = Op("init", "", None)
    /\ putAt = [k \in Keys |-> None]
    /\ recency = [k \in Keys |-> 0]
    /\ putRun = [ok |-> TRUE, keys |-> <<>>]

\* time passes
\* the cache while the other components are looked at
CacheOff ==
    /\ max_size = 0
    /\ cache = <<>>
    /\ access_order = <<>>
    /\ now = 0
    /\ lastOp = Op("off", "", None)
    /\ putAt = [k \in Keys |-> None]
    /\ recency = [k \in Keys |-> 0]
    /\ putRun = [ok |-> TRUE, keys |-> <<>>]

Tick ==
    /\ now < MaxTime
    /\ now' = now + 1
    /\ UNCHANGED <<max_size, cache, access_order, lastOp, putAt, recency, putRun, NotCache>>

Get(key) ==
    LET r == get(St, key, now) IN
    /\ key \in DOMAIN cache => cache[key].access_count < MaxAccess
    /\ cache' = r.st.cache
    /\ access_order' = r.st.access_order
    /\ lastOp' = [Op("get", key, r.ret) EXCEPT
                    !.hist = HistOf(key),
                    !.nottl = PutWithoutTtl({key}),
                    !.kept = WithinDefaultTtl({key}),
                    !.expect = IF putAt[key] = None THEN None
                               ELSE Some(putAt[key][1].data)]
    /\ putAt' = KeepStored(putAt, cache')
    /\ recency' = IF r.ret # None THEN Touch(recency, key) ELSE Drop(recency, {key})
    /\ putRun' = [ok |-> FALSE, keys |-> <<>>]
    /\ UNCHANGED <<now, max_size, NotCache>>

Put(key, data, ttlArg) ==
    LET st == put(St, key, data, ttlArg, now, max_size, DefaultTtlCfg)
        gone == ((DOMAIN cache) \cup {key}) \ DOMAIN st.cache
        touched == Touch(recency, key)
        excess == Cardinality((DOMAIN cache) \cup {key}) - max_size
        this == [time |-> now, ttl |-> EffectiveTtl(ttlArg), data |-> data, arg |-> ttlArg]
    IN
    /\ cache' = st.cache
    /\ access_order' = st.access_order
    /\ lastOp' = [Op("put", key, None) EXCEPT
                    !.evicted = gone,
                    !.lru = LeastRecent(touched, excess)]
    /\ putAt' = [KeepStored(putAt, cache') EXCEPT ![key] = Some(this)]
    /\ recency' = Drop(touched, gone)
    /\ putRun' = IF putRun.ok /\ ~InList(putRun.keys, key)
                 THEN [ok |-> TRUE, keys |-> Append(putRun.keys, key)]
                 ELSE [ok |-> FALSE, keys |-> <<>>]
    /\ UNCHANGED <<now, max_size, NotCache>>

Remove(key) ==
    LET st == remove(St, key) IN
    /\ cache' = st.cache
    /\ access_order' = st.access_order
    /\ lastOp' = Op("remove", key, None)
    /\ putAt' = KeepStored(putAt, cache')
    /\ recency' = Drop(recency, {key})
    /\ putRun' = [ok |-> FALSE, keys |-> <<>>]
    /\ UNCHANGED <<now, max_size, NotCache>>

Clear ==
    LET st == clear(St) IN
    /\ cache' = st.cache
    /\ access_order' = st.access_order
    /\ lastOp' = Op("clear", "", None)
    /\ putAt' = KeepStored(putAt, cache')
    /\ recency' = [k \in Keys |-> 0]
    /\ putRun' = [ok |-> TRUE, keys |-> <<>>]
    /\ UNCHANGED <<now, max_size, NotCache>>

CleanupExpired ==
    LET r == cleanup_expired(St, now) IN
    /\ cache' = r.st.cache
    /\ access_order' = r.st.access_order
    /\ lastOp' = [Op("cleanup_expired", "", Some(r.ret)) EXCEPT
                    !.nottl = PutWithoutTtl(Keys),
                    !.kept = WithinDefaultTtl(Keys)]
    /\ putAt' = KeepStored(putAt, cache')
    /\ recency' = Drop(recency, expired_keys(St, now))
    /\ putRun' = [ok |-> FALSE, keys |-> <<>>]
    /\ UNCHANGED <<now, max_size, NotCache>>

CacheNext ==
    \/ Tick
    \/ \E k \in Keys : Get(k)
    \/ \E k \in Keys, v \in Values, t \in TtlArgs : Put(k, v, t)
    \/ \E k \in Keys : Remove(k)
    \/ Clear
    \/ CleanupExpired


-----------------------------------------------------------------------------
(* BedrockRetryHandler.  Delays are in hundredths of a second. *)

BackoffFactorDefault == 2    \* RetryConfig.backoff_factor
MaxBackoffDefault == 60      \* RetryConfig.max_backoff, seconds

\* RetryConfig.retryable_errors
RetryableErrorsDefault ==
    {"ThrottlingException", "ServiceUnavailableException", "InternalServerException",
     "ModelTimeoutException", "ModelNotReadyException"}

\* random.uniform(0.1, 0.3), in percent
JitterPcts == {10, 20, 30}

\* an exception: its class, and for a botocore ClientError its error code
ClientError(code) == [cls |-> "ClientError", code |-> code]
Raised(cls) == [cls |-> cls, code |-> ""]

\* `except Exception` does not catch asyncio.CancelledError (a BaseException)
IsException(error) == error.cls # "CancelledError"

\* a slip: every error is retried
should_retry_always(error, retryable_errors) == TRUE

\* a slip: only botocore's ClientError is looked at
should_retry_client_only(error, retryable_errors) ==
    IF error.cls = "ClientError"
    THEN error.code \in retryable_errors
         \/ error.code \in {"ThrottlingException", "ServiceUnavailableException",
                            "InternalServerException", "ModelTimeoutException",
                            "ModelNotReadyException"}
    ELSE FALSE

should_retry(error, retryable_errors) ==
    IF error.cls = "ClientError"
    THEN IF error.code \in retryable_errors THEN TRUE
         ELSE IF error.code = "ThrottlingException" THEN TRUE
         ELSE IF error.code = "ServiceUnavailableException" THEN TRUE
         ELSE IF error.code = "InternalServerException" THEN TRUE
         ELSE IF error.code = "ModelTimeoutException" THEN TRUE
         ELSE IF error.code = "ModelNotReadyException" THEN TRUE
         ELSE FALSE
    ELSE IF error.cls = "BedrockRateLimitError" THEN TRUE
    ELSE IF error.cls = "BedrockServiceError" THEN TRUE
    ELSE IF error.cls \in {"ConnectionError", "TimeoutError"} THEN TRUE
    ELSE FALSE

\* a slip: the handler gives up one attempt early
IsLastAttempt_early(attempt, max_attempts) == attempt >= max_attempts - 2

\* line 55: no attempt is left after this one
IsLastAttempt(attempt, max_attempts) == attempt = max_attempts - 1

\* a slip: the first exception is kept
Remember_first(last_exception, e) ==
    IF last_exception = None THEN Some(e) ELSE last_exception

\* line 47: last_exception = e
Remember(last_exception, e) == Some(e)

RECURSIVE Pow(_, _)
Pow(b, n) == IF n = 0 THEN 1 ELSE b * Pow(b, n - 1)

MinOf(a, b) == IF a <= b THEN a ELSE b

\* a slip: the jitter is subtracted
calculate_backoff_minus_jitter(attempt, jitter, backoff_factor, max_backoff) ==
    LET base_delay == 100 * Pow(backoff_factor, attempt)
        delay == base_delay - (jitter * base_delay) \div 100
    IN  MinOf(delay, 100 * max_backoff)

\* jitter is the percentage random.uniform drew
calculate_backoff(attempt, jitter, backoff_factor, max_backoff) ==
    LET base_delay == 100 * Pow(backoff_factor, attempt)
        delay == base_delay + (jitter * base_delay) \div 100
    IN  MinOf(delay, 100 * max_backoff)

-----------------------------------------------------------------------------
(* One call of execute_with_retry.  The operation is given by r_script: its *)
(* i-th invocation raises r_script.fails[i] while i <= Len(r_script.fails)  *)
(* and does r_script.then from then on ("ok": it returns OkValue).          *)

OkValue == "ok"

RetryableKinds == {ClientError("ThrottlingException"), Raised("ConnectionError")}
FinalKinds == {ClientError("ValidationException"), Raised("CancelledError")}

RECURSIVE SeqsUpTo(_, _)
SeqsUpTo(S, n) ==
    IF n = 0 THEN {<<>>}
    ELSE LET shorter == SeqsUpTo(S, n - 1)
         IN  shorter \cup {Append(q, x) : q \in {t \in shorter : Len(t) = n - 1}, x \in S}

Scripts ==
    [fails : SeqsUpTo(RetryableKinds, MaxAttemptsCfg),
     then : {Raised("ok")} \cup FinalKinds \cup RetryableKinds]

\* what invocation number i of the operation does
Outcome(script, i) == IF i <= Len(script.fails) THEN script.fails[i] ELSE script.then

\* the exception object invocation i raises
ErrorOf(script, i) == [kind |-> Outcome(script, i), id |-> i]

RetryOff ==
    /\ r_max_attempts = 0
    /\ r_script = [fails |-> <<>>, then |-> Raised("ok")]
    /\ r_pc = "off"
    /\ r_attempt = 0
    /\ r_last_exception = None
    /\ r_ncalls = 0
    /\ r_sleeps = <<>>
    /\ r_result = None
    /\ r_raised = None

RetryInit ==
    /\ r_max_attempts \in 1..MaxAttemptsCfg
    /\ r_script \in Scripts
    /\ r_pc = "attempt"
    /\ r_attempt = 0
    /\ r_last_exception = None
    /\ r_ncalls = 0
    /\ r_sleeps = <<>>
    /\ r_result = None
    /\ r_raised = None

RetryFrame ==
    UNCHANGED <<r_max_attempts, r_script, cacheVars, backoffVars, limiterVars, batchVars,
                providerVars, embedVars, gatherVars, classifyVars,
                monitorVars>>

\* lines 36-44: the operation returns
AttemptReturns ==
    /\ r_pc = "attempt"
    /\ Outcome(r_script, r_ncalls + 1) = Raised("ok")
    /\ r_ncalls' = r_ncalls + 1
    /\ r_result' = Some(OkValue)
    /\ r_pc' = "returned"
    /\ UNCHANGED <<r_attempt, r_last_exception, r_sleeps, r_raised>>
    /\ RetryFrame

\* the operation raises what `except Exception` does not catch
AttemptRaisesUncaught ==
    LET e == ErrorOf(r_script, r_ncalls + 1) IN
    /\ r_pc = "attempt"
    /\ e.kind # Raised("ok")
    /\ ~IsException(e.kind)
    /\ r_ncalls' = r_ncalls + 1
    /\ r_raised' = Some(e)
    /\ r_pc' = "raised"
    /\ UNCHANGED <<r_attempt, r_last_exception, r_sleeps, r_result>>
    /\ RetryFrame

\* lines 46-52: a non-retryable error is raised again
AttemptFailsFinal ==
    LET e == ErrorOf(r_script, r_ncalls + 1) IN
    /\ r_pc = "attempt"
    /\ e.kind # Raised("ok")
    /\ IsException(e.kind)
    /\ ~should_retry(e.kind, RetryableErrorsDefault)
    /\ r_ncalls' = r_ncalls + 1
    /\ r_last_exception' = Remember(r_last_exception, e)
    /\ r_raised' = Some(e)
    /\ r_pc' = "raised"
    /\ UNCHANGED <<r_attempt, r_sleeps, r_result>>
    /\ RetryFrame

\* a slip: the handler sleeps after the last attempt too
AttemptExhausted_sleeps ==
    LET e == ErrorOf(r_script, r_ncalls + 1) IN
    /\ r_pc = "attempt"
    /\ e.kind # Raised("ok")
    /\ IsException(e.kind)
    /\ should_retry(e.kind, RetryableErrorsDefault)
    /\ IsLastAttempt(r_attempt, r_max_attempts)
    /\ r_ncalls' = r_ncalls + 1
    /\ r_last_exception' = Remember(r_last_exception, e)
    /\ r_raised' = r_last_exception'
    /\ r_sleeps' = Append(r_sleeps, [attempt |-> r_attempt, delay |-> 0])
    /\ r_pc' = "raised"
    /\ UNCHANGED <<r_attempt, r_result>>
    /\ RetryFrame

\* lines 54-57 and 71: the last attempt failed, last_exception is raised
AttemptExhausted ==
    LET e == ErrorOf(r_script, r_ncalls + 1) IN
    /\ r_pc = "attempt"
    /\ e.kind # Raised("ok")
    /\ IsException(e.kind)
    /\ should_retry(e.kind, RetryableErrorsDefault)
    /\ IsLastAttempt(r_attempt, r_max_attempts)
    /\ r_ncalls' = r_ncalls + 1
    /\ r_last_exception' = Remember(r_last_exception, e)
    /\ r_raised' = r_last_exception'
    /\ r_pc' = "raised"
    /\ UNCHANGED <<r_attempt, r_sleeps, r_result>>
    /\ RetryFrame

\* lines 59-68: a retryable error with attempts left; the handler sleeps
AttemptBacksOff(jitter) ==
    LET e == ErrorOf(r_script, r_ncalls + 1)
        delay == calculate_backoff(r_attempt, jitter,
                                   BackoffFactorDefault, MaxBackoffDefault)
    IN
    /\ r_pc = "attempt"
    /\ e.kind # Raised("ok")
    /\ IsException(e.kind)
    /\ should_retry(e.kind, RetryableErrorsDefault)
    /\ ~IsLastAttempt(r_attempt, r_max_attempts)
    /\ r_ncalls' = r_ncalls + 1
    /\ r_last_exception' = Remember(r_last_exception, e)
    /\ r_sleeps' = Append(r_sleeps, [attempt |-> r_attempt, delay |-> delay])
    /\ r_pc' = "sleeping"
    /\ UNCHANGED <<r_attempt, r_result, r_raised>>
    /\ RetryFrame

\* asyncio.sleep returns and the for loop takes the next attempt
SleepReturns ==
    /\ r_pc = "sleeping"
    /\ r_attempt' = r_attempt + 1
    /\ r_pc' = "attempt"
    /\ UNCHANGED <<r_last_exception, r_ncalls, r_sleeps, r_result, r_raised>>
    /\ RetryFrame

RetryNext ==
    \/ AttemptReturns
    \/ AttemptRaisesUncaught
    \/ AttemptFailsFinal
    \/ AttemptExhausted
    \/ \E j \in JitterPcts : AttemptBacksOff(j)
    \/ SleepReturns


-----------------------------------------------------------------------------
(* One call of calculate_backoff *)

BackoffFactors == {2, 3}
MaxBackoffs == {1, 5, 60}

BackoffOff ==
    /\ b_in = [backoff_factor |-> 0, max_backoff |-> 0, attempt |-> 0]
    /\ b_out = None

BackoffInit ==
    /\ b_in \in [backoff_factor : BackoffFactors, max_backoff : MaxBackoffs,
                 attempt : 0..MaxAttemptIdx]
    /\ b_out = None

CalculateBackoff(jitter) ==
    /\ b_out = None
    /\ b_out' = Some([jitter |-> jitter,
                      delay |-> calculate_backoff(b_in.attempt, jitter,
                                                  b_in.backoff_factor, b_in.max_backoff)])
    /\ UNCHANGED <<b_in, cacheVars, retryVars, limiterVars, batchVars, providerVars,
                   embedVars, gatherVars, classifyVars,
                monitorVars>>

BackoffNext == \E j \in JitterPcts : CalculateBackoff(j)


-----------------------------------------------------------------------------
(* BedrockRateLimiter.  The clock counts ticks; requests_per_second is the *)
(* rational RpsNum / RpsDen tokens per tick, and tokens are counted in     *)
(* units of 1 / RpsDen, so that one token is RpsDen units.                 *)

RpsNum == 1         \* BedrockRateLimiter(requests_per_second = 1/2, ...)
RpsDen == 2
BurstSizeCfg == 2   \* BedrockRateLimiter(..., burst_size = 2)

Procs == {"p1", "p2", "p3"}     \* the tasks that call acquire()

Capacity == BurstSizeCfg * RpsDen

\* a slip: the bucket is not capped at burst_size
Refill_uncapped(tokens, elapsed) == tokens + elapsed * RpsNum

\* lines 260-264: the tokens after the refill for the time elapsed
Refill(tokens, elapsed) == MinOf(Capacity, tokens + elapsed * RpsNum)

\* a slip: a whole token is not enough
MustWait_at_one(tokens) == tokens <= RpsDen

\* line 268: self.tokens < 1
MustWait(tokens) == tokens < RpsDen

\* line 269: wait_time = (1 - tokens) / requests_per_second, as the number of
\* ticks times RpsNum
WaitTime(tokens) == RpsDen - tokens

LimiterOff ==
    /\ rl_tokens = Capacity
    /\ rl_last_update = 0
    /\ rl_now = 0
    /\ rl_holder = None
    /\ rl_waiters = <<>>
    /\ rl_pc = [p \in Procs |-> "off"]
    /\ rl_sleep = None
    /\ rl_log = <<>>

LimiterInit ==
    /\ rl_tokens = Capacity
    /\ rl_last_update = 0
    /\ rl_now = 0
    /\ rl_holder = None
    /\ rl_waiters = <<>>
    /\ rl_pc = [p \in Procs |-> "idle"]
    /\ rl_sleep = None
    /\ rl_log = <<>>

LimiterFrame ==
    UNCHANGED <<cacheVars, retryVars, backoffVars, batchVars, providerVars, embedVars,
                gatherVars, classifyVars,
                monitorVars>>

\* a slip: the lock is released before the sleep
CriticalSection_sleeps_unlocked(p) ==
    LET elapsed == rl_now - rl_last_update
        tokens == Refill(rl_tokens, elapsed)
    IN
    /\ rl_last_update' = rl_now
    /\ IF MustWait(tokens)
       THEN /\ rl_tokens' = tokens
            /\ rl_holder' = None
            /\ rl_sleep' = Some([since |-> rl_now, wait_time |-> WaitTime(tokens)])
            /\ rl_pc' = [rl_pc EXCEPT ![p] = "sleeping"]
            /\ rl_log' = Append(rl_log, [p |-> p, at |-> rl_now, tokens |-> tokens,
                                         wait_time |-> WaitTime(tokens), ret |-> None])
       ELSE /\ rl_tokens' = tokens - RpsDen
            /\ rl_holder' = None
            /\ rl_sleep' = None
            /\ rl_pc' = [rl_pc EXCEPT ![p] = "idle"]
            /\ rl_log' = Append(rl_log, [p |-> p, at |-> rl_now, tokens |-> tokens,
                                         wait_time |-> 0, ret |-> Some(rl_now)])

\* lines 257-273, from taking the lock to the sleep or the return
CriticalSection(p) ==
    LET elapsed == rl_now - rl_last_update
        tokens == Refill(rl_tokens, elapsed)
    IN
    /\ rl_last_update' = rl_now
    /\ IF MustWait(tokens)
       THEN /\ rl_tokens' = tokens
            /\ rl_holder' = Some(p)
            /\ rl_sleep' = Some([since |-> rl_now, wait_time |-> WaitTime(tokens)])
            /\ rl_pc' = [rl_pc EXCEPT ![p] = "sleeping"]
            /\ rl_log' = Append(rl_log, [p |-> p, at |-> rl_now, tokens |-> tokens,
                                         wait_time |-> WaitTime(tokens), ret |-> None])
       ELSE /\ rl_tokens' = tokens - RpsDen
            /\ rl_holder' = None
            /\ rl_sleep' = None
            /\ rl_pc' = [rl_pc EXCEPT ![p] = "idle"]
            /\ rl_log' = Append(rl_log, [p |-> p, at |-> rl_now, tokens |-> tokens,
                                         wait_time |-> 0, ret |-> Some(rl_now)])

\* a task calls acquire(); the lock is free and nobody waits for it
AcquireEnters(p) ==
    /\ rl_pc[p] = "idle"
    /\ Len(rl_log) + Len(rl_waiters) < MaxCalls
    /\ rl_holder = None /\ rl_waiters = <<>>
    /\ CriticalSection(p)
    /\ UNCHANGED <<rl_now, rl_waiters>>
    /\ LimiterFrame

\* a task calls acquire() and has to wait for the lock
AcquireQueues(p) ==
    /\ rl_pc[p] = "idle"
    /\ Len(rl_log) + Len(rl_waiters) < MaxCalls
    /\ ~(rl_holder = None /\ rl_waiters = <<>>)
    /\ rl_waiters' = Append(rl_waiters, p)
    /\ rl_pc' = [rl_pc EXCEPT ![p] = "waiting"]
    /\ UNCHANGED <<rl_tokens, rl_last_update, rl_now, rl_holder, rl_sleep, rl_log>>
    /\ LimiterFrame

\* the lock, released, goes to the first waiter
WaiterEnters(p) ==
    /\ rl_pc[p] = "waiting"
    /\ rl_holder = None
    /\ rl_waiters # <<>> /\ Head(rl_waiters) = p
    /\ rl_waiters' = Tail(rl_waiters)
    /\ CriticalSection(p)
    /\ UNCHANGED rl_now
    /\ LimiterFrame

\* a slip: the lock is still held when acquire() returns
SleepOver_keeps_lock(p) ==
    /\ rl_pc[p] = "sleeping"
    /\ rl_holder = Some(p)
    /\ (rl_now - rl_sleep[1].since) * RpsNum >= rl_sleep[1].wait_time
    /\ rl_tokens' = 0
    /\ rl_sleep' = None
    /\ rl_pc' = [rl_pc EXCEPT ![p] = "idle"]
    /\ rl_log' = [i \in 1..Len(rl_log) |->
                    IF rl_log[i].ret = None
                    THEN [rl_log[i] EXCEPT !.ret = Some(rl_now)] ELSE rl_log[i]]
    /\ UNCHANGED <<rl_last_update, rl_now, rl_waiters, rl_holder>>
    /\ LimiterFrame

\* lines 270-271: asyncio.sleep(wait_time) is over; tokens = 0, the lock is released
SleepOver(p) ==
    /\ rl_pc[p] = "sleeping"
    /\ rl_holder = Some(p)
    /\ (rl_now - rl_sleep[1].since) * RpsNum >= rl_sleep[1].wait_time
    /\ rl_tokens' = 0
    /\ rl_holder' = None
    /\ rl_sleep' = None
    /\ rl_pc' = [rl_pc EXCEPT ![p] = "idle"]
    /\ rl_log' = [i \in 1..Len(rl_log) |->
                    IF rl_log[i].ret = None
                    THEN [rl_log[i] EXCEPT !.ret = Some(rl_now)] ELSE rl_log[i]]
    /\ UNCHANGED <<rl_last_update, rl_now, rl_waiters>>
    /\ LimiterFrame

\* the pending asyncio.sleep(wait_time) has not yet lasted wait_time
SleepPending ==
    /\ rl_sleep # None
    /\ (rl_now - rl_sleep[1].since) * RpsNum < rl_sleep[1].wait_time

\* time passes; the clock is followed up to RlMaxTime, and past it until the
\* pending sleep is over
LimiterTick ==
    /\ rl_now < RlMaxTime \/ SleepPending
    /\ rl_now' = rl_now + 1
    /\ UNCHANGED <<rl_tokens, rl_last_update, rl_holder, rl_waiters, rl_pc, rl_sleep,
                   rl_log>>
    /\ LimiterFrame

LimiterNext ==
    \/ \E p \in Procs : AcquireEnters(p)
    \/ \E p \in Procs : AcquireQueues(p)
    \/ \E p \in Procs : WaiterEnters(p)
    \/ \E p \in Procs : SleepOver(p)
    \/ LimiterTick

-----------------------------------------------------------------------------
(* BedrockBatchProcessor.  Each caller task calls add_request once, with its *)
(* own name as request_data; one more task calls flush().  A future is a     *)
(* record: st is "none" (not created), "pending", "result", "exception" or   *)
(* "cancelled".  A result is named by the invocation of the processor        *)
(* function that produced it and by its index in the list returned.          *)

BatchSizeCfg == 2       \* BedrockBatchProcessor(batch_size = 2, ...)
BatchTimeoutCfg == 1    \* BedrockBatchProcessor(..., batch_timeout = 1 tick)

Callers == {"c1", "c2", "c3"}       \* the tasks that call add_request
Flusher == "fl"                     \* the task that calls flush()
Processors == {"f", "g"}            \* the processor functions passed

\* the processor_func each caller passes to add_request
processor_func == [c \in Callers |-> IF c = "c3" THEN "g" ELSE "f"]

\* line 179: timeout = self.batch_timeout * 2
WaitTimeout == BatchTimeoutCfg * 2

Fut(st, call, i, error) == [st |-> st, call |-> call, i |-> i, error |-> error]
FutNone == Fut("none", 0, 0, "")
FutPending == Fut("pending", 0, 0, "")
FutResult(call, i) == Fut("result", call, i, "")
FutException(call, error) == Fut("exception", call, 0, error)
FutCancelled == Fut("cancelled", 0, 0, "")

\* Future.done()
done(fut) == fut.st \in {"result", "exception", "cancelled"}

\* what `await future` gives once the future is done: its result, its
\* exception, or CancelledError for a cancelled future
Await(fut) ==
    IF fut.st = "result" THEN Fut("returned", fut.call, fut.i, "")
    ELSE IF fut.st = "exception" THEN Fut("raised", fut.call, 0, fut.error)
    ELSE Fut("raised", 0, 0, "CancelledError")

\* lines 198-203: the processors of the batch, in the order of their first request
RECURSIVE ProcessorsOf(_)
ProcessorsOf(batch) ==
    IF batch = <<>> THEN <<>>
    ELSE LET p == batch[1].processor
         IN  <<p>> \o ProcessorsOf(SelectSeq(Tail(batch), LAMBDA q : q.processor # p))

\* lines 198-203: processor_groups, as the list of its items
processor_groups(batch) ==
    LET ps == ProcessorsOf(batch)
    IN  [k \in 1..Len(ps) |->
            [processor |-> ps[k],
             requests |-> SelectSeq(batch, LAMBDA q : q.processor = ps[k])]]

\* lines 223-235: the futures after the processor function returned r results
\* for the requests of ids.  set_result and set_exception raise
\* InvalidStateError on a future that is done; the except clause then gives
\* that error to every future of the group that is not done.
SetResults(futs, ids, r, call) ==
    LET m == Len(ids)
        bad == {i \in 1..m : done(futs[ids[i]])}
        stop == IF bad = {} THEN m + 1 ELSE CHOOSE i \in bad : \A j \in bad : i <= j
    IN  [c \in Callers |->
            IF \E i \in 1..m : ids[i] = c
            THEN LET i == CHOOSE j \in 1..m : ids[j] = c
                 IN  IF i < stop
                     THEN IF i <= r THEN FutResult(call, i - 1)
                          ELSE FutException(call, "insufficient results")
                     ELSE IF done(futs[c]) THEN futs[c]
                          ELSE FutException(call, "InvalidStateError")
            ELSE futs[c]]

\* lines 231-235: the futures after the processor function raised
SetException(futs, ids, call) ==
    [c \in Callers |->
        IF (\E i \in 1..Len(ids) : ids[i] = c) /\ ~done(futs[c])
        THEN FutException(call, "BatchError")
        ELSE futs[c]]

BatchOff ==
    /\ pending_requests = <<>>
    /\ bp_holder = None
    /\ bp_waiters = <<>>
    /\ bp_future = [c \in Callers |-> FutNone]
    /\ bp_pc = [t \in Callers \cup {Flusher} |-> "off"]
    /\ bp_timer = [c \in Callers |-> 0]
    /\ bp_now = 0
    /\ bp_calls = <<>>
    /\ bp_ret = [c \in Callers |-> FutNone]
    /\ bp_flush = [before |-> {}, empty |-> FALSE, changed |-> FALSE]
    /\ bp_submitted = <<>>

\* lines 154-160
BatchInit ==
    /\ pending_requests = <<>>
    /\ bp_holder = None
    /\ bp_waiters = <<>>
    /\ bp_future = [c \in Callers |-> FutNone]
    /\ bp_pc = [t \in Callers \cup {Flusher} |-> "idle"]
    /\ bp_timer = [c \in Callers |-> 0]
    /\ bp_now = 0
    /\ bp_calls = <<>>
    /\ bp_ret = [c \in Callers |-> FutNone]
    /\ bp_flush = [before |-> {}, empty |-> FALSE, changed |-> FALSE]
    /\ bp_submitted = <<>>

BatchFrame ==
    UNCHANGED <<cacheVars, retryVars, backoffVars, limiterVars, providerVars, embedVars,
                gatherVars, classifyVars,
                monitorVars>>

\* self._batch_lock is free for a task that asks for it now
LockFree == bp_holder = None /\ bp_waiters = <<>>

\* a processor function is being awaited
Running == \E n \in 1..Len(bp_calls) : bp_calls[n].outcome = "running"

\* a slip: self.pending_requests is not cleared
_process_batch_keeps_pending(batch, trigger) ==
    LET groups == processor_groups(batch)
    IN  /\ pending_requests' = batch
        /\ bp_calls' = bp_calls \o
              [k \in 1..Len(groups) |->
                  [processor |-> groups[k].processor,
                   payloads |-> [i \in 1..Len(groups[k].requests) |->
                                    groups[k].requests[i].data],
                   batch |-> [i \in 1..Len(batch) |-> batch[i].data],
                   first_at |-> batch[1].at,
                   trigger |-> trigger,
                   at |-> bp_now,
                   outcome |-> "running",
                   r |-> 0]]

\* lines 192-211, up to the await of gather: the pending requests are taken and
\* one _process_group task per processor invokes its processor function
_process_batch(batch, trigger) ==
    LET groups == processor_groups(batch)
    IN  /\ pending_requests' = <<>>
        /\ bp_calls' = bp_calls \o
              [k \in 1..Len(groups) |->
                  [processor |-> groups[k].processor,
                   payloads |-> [i \in 1..Len(groups[k].requests) |->
                                    groups[k].requests[i].data],
                   batch |-> [i \in 1..Len(batch) |-> batch[i].data],
                   first_at |-> batch[1].at,
                   trigger |-> trigger,
                   at |-> bp_now,
                   outcome |-> "running",
                   r |-> 0]]

\* a slip: the batch is full when one processor has batch_size requests
AddLocked_per_processor(c, f) ==
    LET pend == Append(pending_requests, [data |-> c, processor |-> f, at |-> bp_now])
    IN  IF Len(SelectSeq(pend, LAMBDA q : q.processor = f)) >= BatchSizeCfg
        THEN /\ _process_batch(pend, "size")
             /\ bp_holder' = Some(c)
             /\ bp_pc' = [bp_pc EXCEPT ![c] = "batch"]
             /\ UNCHANGED bp_timer
        ELSE /\ pending_requests' = pend
             /\ bp_holder' = None
             /\ bp_pc' = [bp_pc EXCEPT ![c] = "wait"]
             /\ bp_timer' = [bp_timer EXCEPT ![c] = bp_now + WaitTimeout]
             /\ UNCHANGED bp_calls

\* lines 166-179, with the lock: the request is appended; a full batch is
\* processed, otherwise the lock is released and wait_for starts
AddLocked(c, f) ==
    LET pend == Append(pending_requests, [data |-> c, processor |-> f, at |-> bp_now])
    IN  IF Len(pend) >= BatchSizeCfg
        THEN /\ _process_batch(pend, "size")
             /\ bp_holder' = Some(c)
             /\ bp_pc' = [bp_pc EXCEPT ![c] = "batch"]
             /\ UNCHANGED bp_timer
        ELSE /\ pending_requests' = pend
             /\ bp_holder' = None
             /\ bp_pc' = [bp_pc EXCEPT ![c] = "wait"]
             /\ bp_timer' = [bp_timer EXCEPT ![c] = bp_now + WaitTimeout]
             /\ UNCHANGED bp_calls

\* line 185: return await future
ReturnAwait(c, fut) ==
    IF done(fut)
    THEN /\ bp_pc' = [bp_pc EXCEPT ![c] = "done"]
         /\ bp_ret' = [bp_ret EXCEPT ![c] = Await(fut)]
    ELSE /\ bp_pc' = [bp_pc EXCEPT ![c] = "await"]
         /\ UNCHANGED bp_ret

\* lines 182-185, with the lock: what is pending is processed; otherwise the
\* lock is released and the future is awaited
TimeoutLocked(c, fut) ==
    IF pending_requests # <<>>
    THEN /\ _process_batch(pending_requests, "timeout")
         /\ bp_holder' = Some(c)
         /\ bp_pc' = [bp_pc EXCEPT ![c] = "batch_after_timeout"]
         /\ UNCHANGED bp_ret
    ELSE /\ bp_holder' = None
         /\ ReturnAwait(c, fut)
         /\ UNCHANGED <<pending_requests, bp_calls>>

\* lines 239-241, with the lock
FlushLocked(before) ==
    /\ IF pending_requests # <<>>
       THEN /\ _process_batch(pending_requests, "flush")
            /\ bp_holder' = Some(Flusher)
            /\ bp_pc' = [bp_pc EXCEPT ![Flusher] = "batch"]
       ELSE /\ bp_holder' = None
            /\ bp_pc' = [bp_pc EXCEPT ![Flusher] = "done"]
            /\ UNCHANGED <<pending_requests, bp_calls>>
    /\ bp_flush' = [before |-> before,
                    empty |-> pending_requests = <<>>,
                    changed |-> \/ pending_requests' # pending_requests
                                \/ bp_calls' # bp_calls]

\* a task calls add_request(c, processor_func[c]): lines 164-179
AddRequest(c) ==
    /\ bp_pc[c] = "idle"
    /\ bp_future' = [bp_future EXCEPT ![c] = FutPending]
    /\ IF LockFree
       THEN AddLocked(c, processor_func[c]) /\ UNCHANGED bp_waiters
       ELSE /\ bp_waiters' = Append(bp_waiters, c)
            /\ bp_pc' = [bp_pc EXCEPT ![c] = "lock"]
            /\ UNCHANGED <<pending_requests, bp_holder, bp_timer, bp_calls>>
    /\ bp_submitted' = Append(bp_submitted, c)
    /\ UNCHANGED <<bp_now, bp_ret, bp_flush>>
    /\ BatchFrame

\* line 179: the timeout of wait_for expires; wait_for cancels the future and
\* raises TimeoutError, and the caller asks for the lock (lines 180-185)
TimeoutFires(c) ==
    /\ bp_pc[c] = "wait"
    /\ ~done(bp_future[c])
    /\ bp_now >= bp_timer[c]
    /\ bp_future' = [bp_future EXCEPT ![c] = FutCancelled]
    /\ IF LockFree
       THEN TimeoutLocked(c, FutCancelled) /\ UNCHANGED bp_waiters
       ELSE /\ bp_waiters' = Append(bp_waiters, c)
            /\ bp_pc' = [bp_pc EXCEPT ![c] = "lock_after_timeout"]
            /\ UNCHANGED <<pending_requests, bp_holder, bp_calls, bp_ret>>
    /\ UNCHANGED <<bp_timer, bp_now, bp_flush, bp_submitted>>
    /\ BatchFrame

\* a task calls flush(): lines 239-241
Flush ==
    /\ bp_pc[Flusher] = "idle"
    /\ LET before == {bp_submitted[i] : i \in 1..Len(bp_submitted)}
       IN  IF LockFree
           THEN FlushLocked(before) /\ UNCHANGED bp_waiters
           ELSE /\ bp_waiters' = Append(bp_waiters, Flusher)
                /\ bp_pc' = [bp_pc EXCEPT ![Flusher] = "lock"]
                /\ bp_flush' = [bp_flush EXCEPT !.before = before]
                /\ UNCHANGED <<pending_requests, bp_holder, bp_calls>>
    /\ UNCHANGED <<bp_future, bp_timer, bp_now, bp_ret, bp_submitted>>
    /\ BatchFrame

\* the lock, released, goes to the first task waiting for it
LockGranted(t) ==
    /\ bp_holder = None
    /\ bp_waiters # <<>> /\ Head(bp_waiters) = t
    /\ bp_waiters' = Tail(bp_waiters)
    /\ IF t = Flusher
       THEN FlushLocked(bp_flush.before) /\ UNCHANGED <<bp_timer, bp_ret>>
       ELSE IF bp_pc[t] = "lock"
       THEN AddLocked(t, processor_func[t]) /\ UNCHANGED <<bp_ret, bp_flush>>
       ELSE TimeoutLocked(t, bp_future[t]) /\ UNCHANGED <<bp_timer, bp_flush>>
    /\ UNCHANGED <<bp_future, bp_now, bp_submitted>>
    /\ BatchFrame

\* line 220 returns: a processor function returns r results (lines 223-235)
GroupReturns(n, r) ==
    /\ bp_calls[n].outcome = "running"
    /\ r <= Len(bp_calls[n].payloads)
    /\ bp_future' = SetResults(bp_future, bp_calls[n].payloads, r, n)
    /\ bp_calls' = [bp_calls EXCEPT ![n].outcome = "returned", ![n].r = r]
    /\ UNCHANGED <<pending_requests, bp_holder, bp_waiters, bp_pc,
                   bp_timer, bp_now, bp_ret, bp_flush, bp_submitted>>
    /\ BatchFrame

\* line 220 raises: a processor function raises an exception (lines 231-235)
GroupRaises(n) ==
    /\ bp_calls[n].outcome = "running"
    /\ bp_future' = SetException(bp_future, bp_calls[n].payloads, n)
    /\ bp_calls' = [bp_calls EXCEPT ![n].outcome = "raised"]
    /\ UNCHANGED <<pending_requests, bp_holder, bp_waiters, bp_pc,
                   bp_timer, bp_now, bp_ret, bp_flush, bp_submitted>>
    /\ BatchFrame

\* line 211 returns: every group is done, _process_batch returns to the task
\* that holds the lock, which releases it
BatchDone(t) ==
    /\ bp_holder = Some(t)
    /\ ~Running
    /\ bp_holder' = None
    /\ IF t = Flusher
       THEN /\ bp_pc' = [bp_pc EXCEPT ![t] = "done"]
            /\ UNCHANGED <<bp_timer, bp_ret>>
       ELSE IF bp_pc[t] = "batch"
       THEN IF done(bp_future[t])
            THEN /\ bp_pc' = [bp_pc EXCEPT ![t] = "done"]
                 /\ bp_ret' = [bp_ret EXCEPT ![t] = Await(bp_future[t])]
                 /\ UNCHANGED bp_timer
            ELSE /\ bp_pc' = [bp_pc EXCEPT ![t] = "wait"]
                 /\ bp_timer' = [bp_timer EXCEPT ![t] = bp_now + WaitTimeout]
                 /\ UNCHANGED bp_ret
       ELSE ReturnAwait(t, bp_future[t]) /\ UNCHANGED bp_timer
    /\ UNCHANGED <<pending_requests, bp_waiters, bp_future, bp_now,
                   bp_calls, bp_flush, bp_submitted>>
    /\ BatchFrame

\* lines 179 and 185: the future awaited is done; add_request returns its
\* result or raises its exception
FutureDone(c) ==
    /\ bp_pc[c] \in {"wait", "await"}
    /\ done(bp_future[c])
    /\ bp_pc' = [bp_pc EXCEPT ![c] = "done"]
    /\ bp_ret' = [bp_ret EXCEPT ![c] = Await(bp_future[c])]
    /\ UNCHANGED <<pending_requests, bp_holder, bp_waiters, bp_future,
                   bp_timer, bp_now, bp_calls, bp_flush, bp_submitted>>
    /\ BatchFrame

\* the request of caller c is among the pending requests
Pending(c) == \E i \in 1..Len(pending_requests) : pending_requests[i].data = c

\* the task that awaits wait_for at line 179 is cancelled by its owner while
\* its request is pending: wait_for cancels the future and add_request ends
\* with CancelledError; nothing touches self.pending_requests
Abandon(c) ==
    /\ bp_pc[c] = "wait"
    /\ ~done(bp_future[c])
    /\ Pending(c)
    /\ bp_future' = [bp_future EXCEPT ![c] = FutCancelled]
    /\ bp_pc' = [bp_pc EXCEPT ![c] = "done"]
    /\ bp_ret' = [bp_ret EXCEPT ![c] = Fut("abandoned", 0, 0, "CancelledError")]
    /\ UNCHANGED <<pending_requests, bp_holder, bp_waiters,
                   bp_timer, bp_now, bp_calls, bp_flush, bp_submitted>>
    /\ BatchFrame

\* a timeout of wait_for is due
TimerDue == \E c \in Callers :
    bp_pc[c] = "wait" /\ ~done(bp_future[c]) /\ bp_now >= bp_timer[c]

\* time passes; the event loop runs the timers that are due first
BatchTick ==
    /\ bp_now < BpMaxTime
    /\ ~TimerDue
    /\ bp_now' = bp_now + 1
    /\ UNCHANGED <<pending_requests, bp_holder, bp_waiters, bp_future,
                   bp_pc, bp_timer, bp_calls, bp_ret, bp_flush, bp_submitted>>
    /\ BatchFrame

BatchNext ==
    \/ \E c \in Callers : AddRequest(c)
    \/ \E c \in Callers : TimeoutFires(c)
    \/ Flush
    \/ \E t \in Callers \cup {Flusher} : LockGranted(t)
    \/ \E n \in 1..Len(bp_calls), r \in 0..BatchSizeCfg : GroupReturns(n, r)
    \/ \E n \in 1..Len(bp_calls) : GroupRaises(n)
    \/ \E t \in Callers \cup {Flusher} : BatchDone(t)
    \/ \E c \in Callers : FutureDone(c)
    \/ \E c \in Callers : Abandon(c)
    \/ BatchTick

-----------------------------------------------------------------------------
(* One BedrockLLMProvider or BedrockVisionProvider.  Each task calls        *)
(* complete (analyze_image) once.  An invocation of the remote model is     *)
(* under way from the entry of _invoke_model (_invoke_vision_model) to its  *)
(* return; that client.invoke_model does not yield to the event loop only   *)
(* removes interleavings.  pv_trace lists, per task, what its call did.     *)

MaxConcurrentCfg == 2   \* config.max_concurrent_requests ranges over 1..MaxConcurrentCfg
PvMaxAttempts == 2      \* config.retry_max_attempts of the provider's retry handler

Kinds == {"llm", "vision"}
Tasks == {"t1", "t2", "t3"}         \* the tasks that call the provider
Prompts == {"p", "q"}               \* the requests they make
ErrorCodes ==
    {"ThrottlingException", "ServiceUnavailableException", "ModelTimeoutException",
     "ValidationException"}
\* what client.invoke_model raises: a ClientError, or a connection failure
InvokeErrors == {ClientError(code) : code \in ErrorCodes} \cup {Raised("ConnectionError")}

\* a slip: the semaphore never makes a caller wait
locked_never(value, waiters) == FALSE

\* asyncio.Semaphore.locked()
locked(value, waiters) == value = 0 \/ waiters # <<>>

\* llm_provider.py lines 222-241, vision_provider.py lines 337-350: the
\* exception _invoke_model (_invoke_vision_model) raises when the remote call
\* raises error
_invoke_model(kind, error) ==
    IF kind = "llm" /\ error.cls = "ClientError"
    THEN IF error.code = "ThrottlingException" THEN Raised("BedrockRateLimitError")
         ELSE IF error.code = "ModelTimeoutException" THEN Raised("BedrockTimeoutError")
         ELSE Raised("BedrockModelError")
    ELSE Raised("BedrockModelError")

ProviderOff ==
    /\ pv_kind = "off"
    /\ pv_max = 0
    /\ pv_value = 0
    /\ pv_waiters = <<>>
    /\ pv_pc = [t \in Tasks |-> "off"]
    /\ pv_attempt = [t \in Tasks |-> 0]
    /\ pv_request = [t \in Tasks |-> ""]
    /\ pv_trace = [t \in Tasks |-> <<>>]
    /\ pv_ret = [t \in Tasks |-> ""]
    /\ pv_seen = [t \in Tasks |-> FALSE]
    /\ pv_error = [t \in Tasks |-> None]

\* llm_provider.py lines 24-28, vision_provider.py lines 26-30
ProviderInit ==
    /\ pv_kind \in Kinds
    /\ pv_max \in 1..MaxConcurrentCfg
    /\ pv_value = pv_max
    /\ pv_waiters = <<>>
    /\ pv_pc = [t \in Tasks |-> "idle"]
    /\ pv_attempt = [t \in Tasks |-> 0]
    /\ pv_request = [t \in Tasks |-> ""]
    /\ pv_trace = [t \in Tasks |-> <<>>]
    /\ pv_ret = [t \in Tasks |-> ""]
    /\ pv_seen = [t \in Tasks |-> FALSE]
    /\ pv_error = [t \in Tasks |-> None]

ProviderFrame ==
    UNCHANGED <<pv_kind, pv_max, cacheVars, retryVars, backoffVars, limiterVars, batchVars,
                embedVars, gatherVars, classifyVars,
                monitorVars>>

\* the requests of the calls that have returned a result
Succeeded == {pv_request[t] : t \in {u \in Tasks : pv_ret[u] = "returned"}}

\* a task calls complete(prompt) / analyze_image(prompt, ...): up to
\* `async with self._semaphore`, and into execute_with_retry when a permit is free
Complete(t, prompt) ==
    /\ pv_pc[t] = "idle"
    /\ pv_request' = [pv_request EXCEPT ![t] = prompt]
    /\ pv_seen' = [pv_seen EXCEPT ![t] = prompt \in Succeeded]
    /\ IF locked(pv_value, pv_waiters)
       THEN /\ pv_waiters' = Append(pv_waiters, t)
            /\ pv_pc' = [pv_pc EXCEPT ![t] = "waiting"]
            /\ UNCHANGED <<pv_value, pv_trace>>
       ELSE /\ pv_value' = pv_value - 1
            /\ pv_pc' = [pv_pc EXCEPT ![t] = "invoking"]
            /\ pv_trace' = [pv_trace EXCEPT ![t] = <<"permit", "invoke">>]
            /\ UNCHANGED pv_waiters
    /\ UNCHANGED <<pv_attempt, pv_ret, pv_error>>
    /\ ProviderFrame

\* Semaphore.release(): the permit goes to the first waiter, if there is one
release(t) ==
    IF pv_waiters # <<>>
    THEN /\ pv_waiters' = Tail(pv_waiters)
         /\ pv_pc' = [pv_pc EXCEPT ![t] = "done", ![Head(pv_waiters)] = "granted"]
         /\ UNCHANGED pv_value
    ELSE /\ pv_value' = pv_value + 1
         /\ pv_pc' = [pv_pc EXCEPT ![t] = "done"]
         /\ UNCHANGED pv_waiters

\* a waiter that was given a permit resumes and enters execute_with_retry
Resume(t) ==
    /\ pv_pc[t] = "granted"
    /\ pv_pc' = [pv_pc EXCEPT ![t] = "invoking"]
    /\ pv_trace' = [pv_trace EXCEPT ![t] = <<"permit", "invoke">>]
    /\ UNCHANGED <<pv_value, pv_waiters, pv_attempt, pv_request, pv_ret, pv_seen, pv_error>>
    /\ ProviderFrame

\* the remote call returns a response: execute_with_retry returns, the permit
\* is released and the text is returned
InvokeReturns(t) ==
    /\ pv_pc[t] = "invoking"
    /\ release(t)
    /\ pv_ret' = [pv_ret EXCEPT ![t] = "returned"]
    /\ pv_trace' = [pv_trace EXCEPT ![t] = Append(@, "release")]
    /\ UNCHANGED <<pv_attempt, pv_request, pv_seen, pv_error>>
    /\ ProviderFrame

\* the remote call fails and execute_with_retry raises: the error is not
\* retryable or no attempt is left; the permit is released
InvokeFails(t, error) ==
    /\ pv_pc[t] = "invoking"
    /\ \/ ~should_retry(_invoke_model(pv_kind, error), RetryableErrorsDefault)
       \/ IsLastAttempt(pv_attempt[t], PvMaxAttempts)
    /\ release(t)
    /\ pv_ret' = [pv_ret EXCEPT ![t] = "raised"]
    /\ pv_trace' = [pv_trace EXCEPT ![t] = Append(@, "release")]
    /\ pv_error' = [pv_error EXCEPT ![t] = Some(error)]
    /\ UNCHANGED <<pv_attempt, pv_request, pv_seen>>
    /\ ProviderFrame

\* the remote call fails with a retryable error and attempts are left:
\* execute_with_retry sleeps, the permit is kept
InvokeBacksOff(t, error) ==
    /\ pv_pc[t] = "invoking"
    /\ should_retry(_invoke_model(pv_kind, error), RetryableErrorsDefault)
    /\ ~IsLastAttempt(pv_attempt[t], PvMaxAttempts)
    /\ pv_pc' = [pv_pc EXCEPT ![t] = "sleeping"]
    /\ pv_trace' = [pv_trace EXCEPT ![t] = Append(@, "sleep")]
    /\ pv_error' = [pv_error EXCEPT ![t] = Some(error)]
    /\ UNCHANGED <<pv_value, pv_waiters, pv_attempt, pv_request, pv_ret, pv_seen>>
    /\ ProviderFrame

\* the backoff is over: the next attempt invokes the remote model again
NextAttempt(t) ==
    /\ pv_pc[t] = "sleeping"
    /\ pv_pc' = [pv_pc EXCEPT ![t] = "invoking"]
    /\ pv_attempt' = [pv_attempt EXCEPT ![t] = @ + 1]
    /\ pv_trace' = [pv_trace EXCEPT ![t] = Append(@, "invoke")]
    /\ UNCHANGED <<pv_value, pv_waiters, pv_request, pv_ret, pv_seen, pv_error>>
    /\ ProviderFrame

\* a slip: a cancelled call keeps its permit
Cancel_keeps_permit(t) ==
    /\ pv_pc[t] \in {"waiting", "granted", "invoking", "sleeping"}
    /\ pv_pc' = [pv_pc EXCEPT ![t] = "done"]
    /\ pv_waiters' = SelectSeq(pv_waiters, LAMBDA w : w # t)
    /\ pv_trace' = [pv_trace EXCEPT ![t] = Append(@, "cancel")]
    /\ pv_ret' = [pv_ret EXCEPT ![t] = "cancelled"]
    /\ UNCHANGED <<pv_value, pv_attempt, pv_request, pv_seen, pv_error>>
    /\ ProviderFrame

\* the task is cancelled while its call is suspended.  In the remote call or
\* in the backoff sleep, CancelledError passes through execute_with_retry
\* (`except Exception` does not catch it) and `async with` releases the permit
\* on the way out.  In Semaphore.acquire, a waiter leaves the queue; one that
\* had already been handed a permit gives it back.
Cancel(t) ==
    /\ pv_pc[t] \in {"waiting", "granted", "invoking", "sleeping"}
    /\ IF pv_pc[t] = "waiting"
       THEN /\ pv_waiters' = SelectSeq(pv_waiters, LAMBDA w : w # t)
            /\ pv_pc' = [pv_pc EXCEPT ![t] = "done"]
            /\ pv_trace' = [pv_trace EXCEPT ![t] = Append(@, "cancel")]
            /\ UNCHANGED pv_value
       ELSE /\ release(t)
            /\ pv_trace' = [pv_trace EXCEPT ![t] =
                               IF pv_pc[t] = "granted"
                               THEN <<"permit", "cancel", "release">>
                               ELSE @ \o <<"cancel", "release">>]
    /\ pv_ret' = [pv_ret EXCEPT ![t] = "cancelled"]
    /\ UNCHANGED <<pv_attempt, pv_request, pv_seen, pv_error>>
    /\ ProviderFrame

ProviderNext ==
    \/ \E t \in Tasks, prompt \in Prompts : Complete(t, prompt)
    \/ \E t \in Tasks : Resume(t)
    \/ \E t \in Tasks : InvokeReturns(t)
    \/ \E t \in Tasks, error \in InvokeErrors : InvokeFails(t, error)
    \/ \E t \in Tasks, error \in InvokeErrors : InvokeBacksOff(t, error)
    \/ \E t \in Tasks : NextAttempt(t)
    \/ \E t \in Tasks : Cancel(t)

-----------------------------------------------------------------------------
(* One call of BedrockEmbeddingProvider.embed_texts(texts, batch_size).  An  *)
(* element of the list returned is the embedding the remote model computed  *)
(* for a text, or the zero vector.                                          *)

EmMaxTexts == 3     \* texts has up to EmMaxTexts elements
EmBatchSize == 2    \* embed_texts(texts, batch_size = 2)

Texts == {"a", " "}         \* a text, and one that text.strip() makes empty
RemoteErrors ==
    {ClientError("ThrottlingException"), ClientError("ValidationException"),
     Raised("ConnectionError")}

Embedding(i) == [kind |-> "embedding", text |-> i]
ZeroVector == [kind |-> "zero", text |-> 0]

\* embedding_provider.py lines 117-122: what _generate_single_embedding raises
\* when client.invoke_model raises error
_generate_single_embedding(error) ==
    IF error.cls = "ClientError"
    THEN IF error.code = "ThrottlingException" THEN Raised("BedrockRateLimitError")
         ELSE Raised("BedrockEmbeddingError")
    ELSE error

EmbeddingOff ==
    /\ em_texts = <<>>
    /\ em_pc = "off"
    /\ em_i = 0
    /\ em_attempt = 0
    /\ em_embeddings = <<>>
    /\ em_invoked = 0
    /\ em_failed = {}
    /\ em_ret = None

EmbeddingInit ==
    /\ em_texts \in SeqsUpTo(Texts, EmMaxTexts)
    /\ em_pc = "idle"
    /\ em_i = 0
    /\ em_attempt = 0
    /\ em_embeddings = <<>>
    /\ em_invoked = 0
    /\ em_failed = {}
    /\ em_ret = None

EmbeddingFrame ==
    UNCHANGED <<em_texts, cacheVars, retryVars, backoffVars, limiterVars, batchVars,
                providerVars, gatherVars, classifyVars,
                monitorVars>>

\* lines 34-35 and 41-43: embed_texts is called
EmbedTexts ==
    /\ em_pc = "idle"
    /\ IF em_texts = <<>>
       THEN em_pc' = "returned" /\ em_ret' = Some(<<>>) /\ UNCHANGED em_i
       ELSE em_pc' = "text" /\ em_i' = 1 /\ UNCHANGED em_ret
    /\ UNCHANGED <<em_attempt, em_embeddings, em_invoked, em_failed>>
    /\ EmbeddingFrame

\* lines 41-50 and 73: on to the next text, to the pause between two batches,
\* or to the return of all_embeddings
Advance(embeddings) ==
    /\ em_embeddings' = embeddings
    /\ em_attempt' = 0
    /\ IF em_i = Len(em_texts)
       THEN em_pc' = "returned" /\ em_ret' = Some(embeddings) /\ UNCHANGED em_i
       ELSE IF em_i % EmBatchSize = 0
       THEN em_pc' = "pause" /\ UNCHANGED <<em_i, em_ret>>
       ELSE em_pc' = "text" /\ em_i' = em_i + 1 /\ UNCHANGED em_ret

\* lines 90-91: a blank text gets the zero vector, with no remote call
BlankText ==
    /\ em_pc = "text"
    /\ em_texts[em_i] = " "
    /\ Advance(Append(em_embeddings, ZeroVector))
    /\ UNCHANGED <<em_invoked, em_failed>>
    /\ EmbeddingFrame

\* lines 97-113: the remote call returns an embedding
EmbeddingReturns ==
    /\ em_pc = "text"
    /\ em_texts[em_i] # " "
    /\ em_invoked' = em_invoked + 1
    /\ Advance(Append(em_embeddings, Embedding(em_i)))
    /\ UNCHANGED em_failed
    /\ EmbeddingFrame

\* the remote call fails with a retryable error and attempts are left
EmbeddingBacksOff(error) ==
    /\ em_pc = "text"
    /\ em_texts[em_i] # " "
    /\ should_retry(_generate_single_embedding(error), RetryableErrorsDefault)
    /\ ~IsLastAttempt(em_attempt, PvMaxAttempts)
    /\ em_invoked' = em_invoked + 1
    /\ em_pc' = "sleeping"
    /\ UNCHANGED <<em_i, em_attempt, em_embeddings, em_failed, em_ret>>
    /\ EmbeddingFrame

\* the backoff is over
EmbeddingNextAttempt ==
    /\ em_pc = "sleeping"
    /\ em_pc' = "text"
    /\ em_attempt' = em_attempt + 1
    /\ UNCHANGED <<em_i, em_embeddings, em_invoked, em_failed, em_ret>>
    /\ EmbeddingFrame

\* lines 81-84: execute_with_retry raises; the zero vector is appended
EmbeddingFails(error) ==
    /\ em_pc = "text"
    /\ em_texts[em_i] # " "
    /\ \/ ~should_retry(_generate_single_embedding(error), RetryableErrorsDefault)
       \/ IsLastAttempt(em_attempt, PvMaxAttempts)
    /\ em_invoked' = em_invoked + 1
    /\ em_failed' = em_failed \cup {em_i}
    /\ Advance(Append(em_embeddings, ZeroVector))
    /\ EmbeddingFrame

\* lines 47-48: asyncio.sleep(0.1) between two batches is over
PauseOver ==
    /\ em_pc = "pause"
    /\ em_pc' = "text"
    /\ em_i' = em_i + 1
    /\ UNCHANGED <<em_attempt, em_embeddings, em_invoked, em_failed, em_ret>>
    /\ EmbeddingFrame

EmbeddingNext ==
    \/ EmbedTexts
    \/ BlankText
    \/ EmbeddingReturns
    \/ \E error \in RemoteErrors : EmbeddingBacksOff(error)
    \/ EmbeddingNextAttempt
    \/ \E error \in RemoteErrors : EmbeddingFails(error)
    \/ PauseOver

-----------------------------------------------------------------------------
(* One call of BedrockLLMProvider.complete_batch(prompts).  The calls of    *)
(* complete that asyncio.gather runs finish in any order; a string is a     *)
(* sequence of its parts.                                                   *)

CbMaxPrompts == 3   \* prompts has up to CbMaxPrompts elements

\* what complete raises: the exceptions of _invoke_model
CompleteErrors == {_invoke_model("llm", error) : error \in InvokeErrors}

\* the text complete(prompts[i]) returns
Completion(i, prompt) == <<"completion of ", prompt, i>>

\* line 108: f"Error: {str(result)}"
ErrorString(result) == <<"Error: ", result.cls>>

\* lines 105-111: the element of the list for one result of gather
Processed(result) ==
    IF result.st = "raised" /\ IsException(result.error)
    THEN ErrorString(result.error)
    ELSE IF result.st = "raised" THEN result.error
    ELSE result.text

\* a slip: the list is built back to front
processed_results_reversed(results) ==
    [i \in 1..Len(results) |-> Processed(results[Len(results) + 1 - i])]

\* lines 104-111: the list built from the results of gather
processed_results(results) == [i \in 1..Len(results) |-> Processed(results[i])]

TaskPending == [st |-> "pending", text |-> <<>>, error |-> Raised("")]
TaskReturned(text) == [st |-> "returned", text |-> text, error |-> Raised("")]
TaskRaised(error) == [st |-> "raised", text |-> <<>>, error |-> error]

CompleteBatchOff ==
    /\ cb_prompts = <<>>
    /\ cb_pc = "off"
    /\ cb_results = <<>>
    /\ cb_ret = None

CompleteBatchInit ==
    /\ cb_prompts \in SeqsUpTo(Prompts, CbMaxPrompts)
    /\ cb_pc = "idle"
    /\ cb_results = <<>>
    /\ cb_ret = None

CompleteBatchFrame ==
    UNCHANGED <<cb_prompts, cacheVars, retryVars, backoffVars, limiterVars, batchVars,
                providerVars, embedVars, classifyVars, monitorVars>>

\* lines 86-101: the tasks are created and gather is awaited
CompleteBatch ==
    /\ cb_pc = "idle"
    /\ IF cb_prompts = <<>>
       THEN cb_pc' = "returned" /\ cb_ret' = Some(<<>>) /\ UNCHANGED cb_results
       ELSE /\ cb_pc' = "gather"
            /\ cb_results' = [i \in 1..Len(cb_prompts) |-> TaskPending]
            /\ UNCHANGED cb_ret
    /\ CompleteBatchFrame

\* complete(prompts[i]) returns its text
TaskReturns(i) ==
    /\ cb_pc = "gather"
    /\ i \in 1..Len(cb_prompts)
    /\ cb_results[i].st = "pending"
    /\ cb_results' = [cb_results EXCEPT ![i] = TaskReturned(Completion(i, cb_prompts[i]))]
    /\ UNCHANGED <<cb_pc, cb_ret>>
    /\ CompleteBatchFrame

\* complete(prompts[i]) raises
TaskRaises(i, error) ==
    /\ cb_pc = "gather"
    /\ i \in 1..Len(cb_prompts)
    /\ cb_results[i].st = "pending"
    /\ cb_results' = [cb_results EXCEPT ![i] = TaskRaised(error)]
    /\ UNCHANGED <<cb_pc, cb_ret>>
    /\ CompleteBatchFrame

\* lines 101-113: every task is done, gather returns the results in the order
\* of the tasks and complete_batch returns processed_results
GatherReturns ==
    /\ cb_pc = "gather"
    /\ \A i \in 1..Len(cb_prompts) : cb_results[i].st # "pending"
    /\ cb_pc' = "returned"
    /\ cb_ret' = Some(processed_results(cb_results))
    /\ UNCHANGED cb_results
    /\ CompleteBatchFrame

CompleteBatchNext ==
    \/ CompleteBatch
    \/ \E i \in 1..CbMaxPrompts : TaskReturns(i)
    \/ \E i \in 1..CbMaxPrompts, error \in CompleteErrors : TaskRaises(i, error)
    \/ GatherReturns

-----------------------------------------------------------------------------
(* One call of should_retry *)

\* the error codes of a botocore ClientError that are tried
ClientCodes ==
    RetryableErrorsDefault \cup
    {"ValidationException", "AccessDeniedException", "UnrecognizedClientException", ""}

\* the exception classes that are tried: those of exceptions.py, the builtin
\* network errors and one unrelated builtin
ErrorClasses ==
    {"BedrockConfigurationError", "BedrockAuthenticationError", "BedrockModelError",
     "BedrockTimeoutError", "BedrockRateLimitError", "BedrockServiceError",
     "ConnectionError", "TimeoutError", "ValueError"}

ClassifyErrors ==
    {ClientError(code) : code \in ClientCodes} \cup {Raised(cls) : cls \in ErrorClasses}

\* values of RetryConfig.retryable_errors: the default, none, one code
RetryableErrorsCfgs == {RetryableErrorsDefault, {}, {"ThrottlingException"}}

ClassifyOff ==
    /\ sr_error = Raised("")
    /\ sr_retryable_errors = {}
    /\ sr_out = None

ClassifyInit ==
    /\ sr_error \in ClassifyErrors
    /\ sr_retryable_errors \in RetryableErrorsCfgs
    /\ sr_out = None

ShouldRetry ==
    /\ sr_out = None
    /\ sr_error \in ClassifyErrors
    /\ sr_out' = Some(should_retry(sr_error, sr_retryable_errors))
    /\ UNCHANGED <<sr_error, sr_retryable_errors, cacheVars, retryVars, backoffVars,
                   limiterVars, batchVars, providerVars, embedVars, gatherVars,
                   monitorVars>>

ClassifyNext == ShouldRetry

-----------------------------------------------------------------------------
(* BedrockPerformanceMonitor.  Response times are whole ticks.  The methods *)
(* are synchronous: each call is one step.                                 *)

MonMaxOps == 5       \* at most MonMaxOps method calls are made
MaxHistoryCfg == 2   \* self.max_history (1000 in the source)
ResponseTimes == {1, 2}

\* lines 278-286
MetricsInit ==
    [total_requests |-> 0, successful_requests |-> 0, failed_requests |-> 0,
     total_response_time |-> 0, cache_hits |-> 0, cache_misses |-> 0,
     rate_limit_hits |-> 0]

\* a slip: the window is never trimmed
record_request_untrimmed(m, times, success, response_time, cached, max_history) ==
    [metrics |->
        [m EXCEPT !.total_requests = @ + 1,
                  !.successful_requests = IF success THEN @ + 1 ELSE @,
                  !.failed_requests = IF success THEN @ ELSE @ + 1,
                  !.total_response_time = @ + response_time,
                  !.cache_hits = IF cached THEN @ + 1 ELSE @,
                  !.cache_misses = IF cached THEN @ ELSE @ + 1],
     request_times |-> Append(times, response_time)]

\* lines 290-311: the monitor after record_request(success, response_time, cached)
record_request(m, times, success, response_time, cached, max_history) ==
    [metrics |->
        [m EXCEPT !.total_requests = @ + 1,
                  !.successful_requests = IF success THEN @ + 1 ELSE @,
                  !.failed_requests = IF success THEN @ ELSE @ + 1,
                  !.total_response_time = @ + response_time,
                  !.cache_hits = IF cached THEN @ + 1 ELSE @,
                  !.cache_misses = IF cached THEN @ ELSE @ + 1],
     request_times |->
        LET appended == Append(times, response_time)
        IN  IF Len(appended) > max_history THEN Tail(appended) ELSE appended]

\* lines 313-315
record_rate_limit(m) == [m EXCEPT !.rate_limit_hits = @ + 1]

\* sorted(): insertion of x into an ascending list
InsertSorted(x, s) ==
    LET below == SelectSeq(s, LAMBDA y : y <= x)
        above == SelectSeq(s, LAMBDA y : y > x)
    IN  below \o <<x>> \o above

RECURSIVE sorted(_)
sorted(s) == IF s = <<>> THEN <<>> ELSE InsertSorted(Head(s), sorted(Tail(s)))

\* lines 343-351; percentile is given in hundredths, lists are 1-based here
_percentile(sorted_list, percentile) ==
    IF sorted_list = <<>> THEN 0
    ELSE LET index == (Len(sorted_list) * percentile) \div 100
         IN  IF index >= Len(sorted_list)
             THEN sorted_list[Len(sorted_list)]
             ELSE sorted_list[index + 1]

\* lines 317-341: the dictionary returned; a ratio is the pair <<numerator,
\* denominator>>
get_stats(m, times) ==
    IF m.total_requests = 0
    THEN [metrics |-> m, rates |-> None, percentiles |-> None]
    ELSE [metrics |-> m,
          rates |-> Some([success_rate |-> <<m.successful_requests, m.total_requests>>,
                          average_response_time |->
                              <<m.total_response_time, m.total_requests>>,
                          cache_hit_rate |-> <<m.cache_hits, m.total_requests>>]),
          percentiles |->
              IF times # <<>>
              THEN LET sorted_times == sorted(times)
                   IN  Some([p50_response_time |-> _percentile(sorted_times, 50),
                             p95_response_time |-> _percentile(sorted_times, 95),
                             p99_response_time |-> _percentile(sorted_times, 99)])
              ELSE None]

\* a slip: rate_limit_hits survives the reset
reset_keeps_rate_limit_hits(m) ==
    [key \in DOMAIN m |-> IF key = "rate_limit_hits" THEN m[key] ELSE 0]

\* lines 355-356: every value of the dictionary is a number
reset(m) == [key \in DOMAIN m |-> 0]

NoStats == [metrics |-> MetricsInit, rates |-> None, percentiles |-> None]

MonitorOff ==
    /\ metrics = MetricsInit
    /\ request_times = <<>>
    /\ mon_recorded = <<>>
    /\ mon_op = [op |-> "off", ret |-> NoStats]
    /\ mon_nops = 0

\* lines 277-288: __init__
MonitorInit ==
    /\ metrics = MetricsInit
    /\ request_times = <<>>
    /\ mon_recorded = <<>>
    /\ mon_op = [op |-> "__init__", ret |-> NoStats]
    /\ mon_nops = 0

MonitorFrame ==
    UNCHANGED <<cacheVars, retryVars, backoffVars, limiterVars, batchVars, providerVars,
                embedVars, gatherVars, classifyVars>>

MonitorCall(op, ret) ==
    /\ mon_op.op # "off"
    /\ mon_nops < MonMaxOps
    /\ mon_nops' = mon_nops + 1
    /\ mon_op' = [op |-> op, ret |-> ret]

RecordRequest(success, response_time, cached) ==
    LET after == record_request(metrics, request_times, success, response_time, cached,
                                MaxHistoryCfg)
    IN  /\ MonitorCall("record_request", NoStats)
        /\ metrics' = after.metrics
        /\ request_times' = after.request_times
        /\ mon_recorded' = Append(mon_recorded, response_time)
        /\ MonitorFrame

RecordRateLimit ==
    /\ MonitorCall("record_rate_limit", NoStats)
    /\ metrics' = record_rate_limit(metrics)
    /\ UNCHANGED <<request_times, mon_recorded>>
    /\ MonitorFrame

GetStats ==
    /\ MonitorCall("get_stats", get_stats(metrics, request_times))
    /\ UNCHANGED <<metrics, request_times, mon_recorded>>
    /\ MonitorFrame

\* lines 353-357
Reset ==
    /\ MonitorCall("reset", NoStats)
    /\ metrics' = reset(metrics)
    /\ request_times' = <<>>
    /\ mon_recorded' = <<>>
    /\ MonitorFrame

MonitorNext ==
    \/ \E success \in BOOLEAN, response_time \in ResponseTimes, cached \in BOOLEAN :
          RecordRequest(success, response_time, cached)
    \/ RecordRateLimit
    \/ GetStats
    \/ Reset

-----------------------------------------------------------------------------
(* The specifications *)

InitCache == CacheInit /\ RetryOff /\ BackoffOff /\ LimiterOff /\ BatchOff /\ ProviderOff
    /\ EmbeddingOff /\ CompleteBatchOff /\ ClassifyOff /\ MonitorOff
SpecCache == InitCache /\ [][CacheNext]_vars

InitRetry == CacheOff /\ RetryInit /\ BackoffOff /\ LimiterOff /\ BatchOff /\ ProviderOff
    /\ EmbeddingOff /\ CompleteBatchOff /\ ClassifyOff /\ MonitorOff
SpecRetry == InitRetry /\ [][RetryNext]_vars

InitBackoff == CacheOff /\ RetryOff /\ BackoffInit /\ LimiterOff /\ BatchOff /\ ProviderOff
    /\ EmbeddingOff /\ CompleteBatchOff /\ ClassifyOff /\ MonitorOff
SpecBackoff == InitBackoff /\ [][BackoffNext]_vars

InitLimiter == CacheOff /\ RetryOff /\ BackoffOff /\ LimiterInit /\ BatchOff /\ ProviderOff
    /\ EmbeddingOff /\ CompleteBatchOff /\ ClassifyOff /\ MonitorOff
SpecLimiter == InitLimiter /\ [][LimiterNext]_vars

\* The event loop runs every task that is ready: a timer that is due fires, a
\* released lock wakes its first waiter, and time passes.  Nothing obliges a
\* task to call acquire().
LimiterFairness ==
    /\ WF_vars(LimiterTick)
    /\ WF_vars(\E p \in Procs : SleepOver(p))
    /\ WF_vars(\E p \in Procs : WaiterEnters(p))

InitBatch == CacheOff /\ RetryOff /\ BackoffOff /\ LimiterOff /\ BatchInit /\ ProviderOff
    /\ EmbeddingOff /\ CompleteBatchOff /\ ClassifyOff /\ MonitorOff
SpecBatch == InitBatch /\ [][BatchNext]_vars

InitProvider ==
    CacheOff /\ RetryOff /\ BackoffOff /\ LimiterOff /\ BatchOff /\ ProviderInit
    /\ EmbeddingOff /\ CompleteBatchOff /\ ClassifyOff /\ MonitorOff
SpecProvider == InitProvider /\ [][ProviderNext]_vars

InitEmbedding ==
    CacheOff /\ RetryOff /\ BackoffOff /\ LimiterOff /\ BatchOff /\ ProviderOff
    /\ EmbeddingInit /\ CompleteBatchOff /\ ClassifyOff /\ MonitorOff
SpecEmbedding == InitEmbedding /\ [][EmbeddingNext]_vars

InitCompleteBatch ==
    CacheOff /\ RetryOff /\ BackoffOff /\ LimiterOff /\ BatchOff /\ ProviderOff
    /\ EmbeddingOff /\ CompleteBatchInit /\ ClassifyOff /\ MonitorOff
SpecCompleteBatch == InitCompleteBatch /\ [][CompleteBatchNext]_vars

InitLimiterFair == CacheOff /\ RetryOff /\ BackoffOff /\ LimiterInit /\ BatchOff /\ ProviderOff
    /\ EmbeddingOff /\ CompleteBatchOff /\ ClassifyOff /\ MonitorOff
SpecLimiterFair == InitLimiterFair /\ [][LimiterNext]_vars /\ LimiterFairness

InitClassify ==
    CacheOff /\ RetryOff /\ BackoffOff /\ LimiterOff /\ BatchOff /\ ProviderOff
    /\ EmbeddingOff /\ CompleteBatchOff /\ ClassifyInit /\ MonitorOff
SpecClassify == InitClassify /\ [][ClassifyNext]_vars

InitMonitor ==
    CacheOff /\ RetryOff /\ BackoffOff /\ LimiterOff /\ BatchOff /\ ProviderOff
    /\ EmbeddingOff /\ CompleteBatchOff /\ ClassifyOff /\ MonitorInit
SpecMonitor == InitMonitor /\ [][MonitorNext]_vars

-----------------------------------------------------------------------------
(* Claims about BedrockCache *)

\* C1: a get(k) that directly follows put(k, v, ttl), before the ttl has elapsed,
\* returns v; a get(k) made once more than ttl has elapsed since the last put of
\* k returns None.
C1_PutGetTtl ==
    lastOp.op = "get" =>
        /\ lastOp.hist = "fresh" => lastOp.ret = lastOp.expect /\ lastOp.ret # None
        /\ lastOp.hist = "elapsed" => lastOp.ret = None

C1_Witness ==
    /\ lastOp.op = "get"
    /\ lastOp.hist = "elapsed"
    /\ lastOp.ret = None
    /\ now = MaxTime
    /\ cache # <<>>

\* C2: the mapping never holds more than max_size entries.
C2_SizeBound == Cardinality(DOMAIN cache) <= max_size

C2_Witness ==
    /\ lastOp.op = "put"
    /\ lastOp.evicted # {}
    /\ max_size = 2
    /\ Cardinality(DOMAIN cache) = max_size

\* C3: access_order holds exactly the keys of the mapping, each once.
C3_OrderIsPermutation ==
    /\ Len(access_order) = Cardinality(DOMAIN cache)
    /\ {access_order[i] : i \in 1..Len(access_order)} = DOMAIN cache

C3_Witness ==
    /\ lastOp.op = "cleanup_expired"
    /\ lastOp.ret = Some(1)
    /\ Len(access_order) = 1

\* C4: a put evicts exactly the least recently touched keys (a put and a
\* successful get touch a key), as many as the mapping exceeds max_size by; after
\* puts of distinct keys alone, the keys stored are the last max_size ones put.
LastKeys(s, n) == {s[i] : i \in {j \in 1..Len(s) : j > Len(s) - n}}

C4_EvictsLeastRecent ==
    /\ lastOp.op = "put" => lastOp.evicted = lastOp.lru
    /\ putRun.ok => DOMAIN cache = LastKeys(putRun.keys, max_size)

C4_Witness ==
    /\ putRun.ok
    /\ max_size = 2
    /\ Len(putRun.keys) = max_size + 1
    /\ lastOp.evicted = {putRun.keys[1]}
    /\ putRun.keys[1] \notin DOMAIN cache

-----------------------------------------------------------------------------
(* Claims about BedrockRetryHandler *)

RetryDone == r_pc \in {"returned", "raised"}

\* the operation fails with a retryable error on its first k invocations
FailsRetryably(k) ==
    \A i \in 1..k : LET e == Outcome(r_script, i)
                    IN  e # Raised("ok") /\ e \in RetryableKinds

\* C5: an operation that fails with a retryable error exactly k < max_attempts
\* times and then succeeds is invoked exactly k+1 times, and execute_with_retry
\* returns its value.
C5_SucceedsAfterRetries ==
    LET k == Len(r_script.fails) IN
    (k < r_max_attempts /\ r_script.then = Raised("ok")) =>
        /\ r_ncalls <= k + 1
        /\ r_pc # "raised"
        /\ r_pc = "returned" => r_result = Some(OkValue) /\ r_ncalls = k + 1
        /\ ~RetryDone => ENABLED RetryNext

C5_Witness ==
    /\ r_max_attempts = 3
    /\ Len(r_script.fails) = 2
    /\ r_script.then = Raised("ok")
    /\ r_pc = "returned"
    /\ r_result = Some(OkValue)
    /\ r_ncalls = 3
    /\ Len(r_sleeps) = 2

\* C6: when an invocation fails with a non-retryable error, it is the last one:
\* no sleep follows and that error is raised, however many attempts remain; an
\* operation whose first failure is non-retryable is invoked once.
C6_NonRetryableRaisedAtOnce ==
    LET k == Len(r_script.fails) IN
    (k < r_max_attempts /\ r_script.then \in FinalKinds) =>
        /\ r_ncalls <= k + 1
        /\ Len(r_sleeps) <= k
        /\ r_pc # "returned"
        /\ r_pc = "raised" => /\ r_raised = Some(ErrorOf(r_script, k + 1))
                              /\ r_ncalls = k + 1
        /\ ~RetryDone => ENABLED RetryNext

C6_Witness ==
    /\ r_max_attempts = 3
    /\ r_script.fails = <<>>
    /\ r_script.then = ClientError("ValidationException")
    /\ r_pc = "raised"
    /\ r_ncalls = 1
    /\ r_sleeps = <<>>

\* C7: an operation that fails with a retryable error on every attempt is
\* invoked exactly max_attempts times, and the exception raised is the one its
\* last invocation raised.
C7_ExhaustedRaisesLast ==
    FailsRetryably(r_max_attempts) =>
        /\ r_ncalls <= r_max_attempts
        /\ r_pc # "returned"
        /\ r_pc = "raised" => /\ r_ncalls = r_max_attempts
                              /\ r_raised = Some(ErrorOf(r_script, r_max_attempts))
        /\ ~RetryDone => ENABLED RetryNext

C7_Witness ==
    /\ r_max_attempts = 3
    /\ FailsRetryably(3)
    /\ Outcome(r_script, 1) # Outcome(r_script, 3)
    /\ r_pc = "raised"
    /\ r_ncalls = 3
    /\ r_raised = Some(ErrorOf(r_script, 3))

-----------------------------------------------------------------------------
(* Claims about calculate_backoff *)

BaseDelay == 100 * Pow(b_in.backoff_factor, b_in.attempt)

\* C8 as stated: the delay is at least backoff_factor^n and at most
\* max_backoff + 0.3 * backoff_factor^n.
C8_Original ==
    b_out # None =>
        /\ b_out[1].delay >= BaseDelay
        /\ b_out[1].delay <= 100 * b_in.max_backoff + (30 * BaseDelay) \div 100

\* C8 amended: the delay is at least min(max_backoff, backoff_factor^n) and at
\* most max_backoff + 0.3 * backoff_factor^n.
C8_Amended ==
    b_out # None =>
        /\ b_out[1].delay >= MinOf(100 * b_in.max_backoff, BaseDelay)
        /\ b_out[1].delay <= 100 * b_in.max_backoff + (30 * BaseDelay) \div 100

C8_Witness ==
    /\ b_out # None
    /\ BaseDelay > 100 * b_in.max_backoff
    /\ b_out[1].delay = 100 * b_in.max_backoff

-----------------------------------------------------------------------------
(* Claims about BedrockRateLimiter *)

\* C9: 0 <= tokens <= burst_size in every state, whatever the interleaving of
\* the callers and of the (non-decreasing) clock.
C9_TokensInRange == rl_tokens >= 0 /\ rl_tokens <= Capacity

C9_Witness ==
    /\ rl_tokens = 0
    /\ rl_sleep = None
    /\ rl_waiters # <<>>
    /\ \E i \in 1..Len(rl_log) : rl_log[i].wait_time > 0 /\ rl_log[i].ret # None

\* the calls i..j of the log entered the critical section at the same instant
SameInstant(i, j) == \A m \in i..j : rl_log[m].at = rl_log[i].at

\* C10: of capacity + 1 calls that reach a full bucket at the same instant, the
\* first capacity ones return at once and the last one sleeps for
\* 1 / requests_per_second, returning no earlier than that.
C10_BurstThenDelay ==
    \A i \in 1..Len(rl_log) : \A j \in i..Len(rl_log) :
        (rl_log[i].tokens = Capacity /\ SameInstant(i, j)) =>
            /\ j - i < BurstSizeCfg =>
                  rl_log[j].wait_time = 0 /\ rl_log[j].ret = Some(rl_log[j].at)
            /\ j - i = BurstSizeCfg =>
                  /\ rl_log[j].wait_time = RpsDen
                  /\ rl_log[j].ret # None =>
                        (rl_log[j].ret[1] - rl_log[j].at) * RpsNum >= RpsDen

C10_Witness ==
    /\ Len(rl_log) = BurstSizeCfg + 1
    /\ rl_log[1].tokens = Capacity
    /\ SameInstant(1, BurstSizeCfg + 1)
    /\ rl_log[BurstSizeCfg + 1].wait_time = RpsDen
    /\ rl_log[BurstSizeCfg + 1].ret = Some(rl_log[1].at + RpsDen \div RpsNum)

\* C11: acquire() has no path that rejects or raises, and under any number of
\* concurrent callers every call that was made eventually returns: a caller that
\* waits for the lock or sleeps in acquire() is eventually back from the call.
C11_EveryCallReturns ==
    \A p \in Procs : (rl_pc[p] \in {"waiting", "sleeping"}) ~> (rl_pc[p] = "idle")

C11_Witness ==
    /\ Len(rl_log) = MaxCalls
    /\ \A i \in 1..Len(rl_log) : rl_log[i].ret # None
    /\ \E i \in 1..Len(rl_log) : \E j \in 1..Len(rl_log) :
          i < j /\ rl_log[i].wait_time > 0 /\ rl_log[j].wait_time > 0
    /\ \A p \in Procs : rl_pc[p] = "idle"

-----------------------------------------------------------------------------
(* Claims about BedrockBatchProcessor *)

Returned(call, i) == Fut("returned", call, i, "")
Raised_(call, error) == Fut("raised", call, 0, error)

\* add_request has returned or raised for caller c
Back(c) == bp_ret[c].st \in {"returned", "raised"}

\* the requests of the batch of call n all name the same processor function
OneProcessor(n) ==
    \A i \in 1..Len(bp_calls[n].batch) :
        processor_func[bp_calls[n].batch[i]] = bp_calls[n].processor

\* s is a subsequence of bp_submitted: its callers called in that order
InSubmissionOrder(s) ==
    \A i \in 1..Len(s) : \A j \in 1..Len(s) :
        i < j => \E a \in 1..Len(bp_submitted) : \E b \in 1..Len(bp_submitted) :
                    a < b /\ bp_submitted[a] = s[i] /\ bp_submitted[b] = s[j]

\* C12: batch_size requests with the same processor, submitted to an empty
\* processor, are dispatched as one invocation of the processor function with
\* all batch_size payloads in submission order, and each caller receives the
\* element of the returned list at its own submission index.
C12_FullBatchOneCall ==
    \A n \in 1..Len(bp_calls) :
        (bp_calls[n].trigger = "size" /\ OneProcessor(n)) =>
            /\ Len(bp_calls[n].payloads) = BatchSizeCfg
            /\ bp_calls[n].payloads = bp_calls[n].batch
            /\ InSubmissionOrder(bp_calls[n].payloads)
            /\ \A m \in 1..Len(bp_calls) : m # n => bp_calls[m].batch # bp_calls[n].batch
            /\ (bp_calls[n].outcome = "returned" /\ bp_calls[n].r = BatchSizeCfg) =>
                  \A i \in 1..BatchSizeCfg :
                      Back(bp_calls[n].payloads[i]) =>
                          bp_ret[bp_calls[n].payloads[i]] = Returned(n, i - 1)

\* C13: when the processor function raises, every request of that call has its
\* future resolved with that error, and its caller observes that error.
C13_BatchErrorToAll ==
    \A n \in 1..Len(bp_calls) :
        bp_calls[n].outcome = "raised" =>
            \A i \in 1..Len(bp_calls[n].payloads) :
                LET c == bp_calls[n].payloads[i]
                IN  /\ bp_future[c] = FutException(n, "BatchError")
                    /\ Back(c) => bp_ret[c] = Raised_(n, "BatchError")

\* C14: when the processor function returns r results for m > r requests, the
\* first r callers receive results 0..r-1 and every later one fails with the
\* error 'insufficient results'.
C14_InsufficientResults ==
    \A n \in 1..Len(bp_calls) :
        (bp_calls[n].outcome = "returned" /\ bp_calls[n].r < Len(bp_calls[n].payloads)) =>
            \A i \in 1..Len(bp_calls[n].payloads) :
                LET c == bp_calls[n].payloads[i]
                IN  Back(c) =>
                        bp_ret[c] = IF i <= bp_calls[n].r
                                    THEN Returned(n, i - 1)
                                    ELSE Raised_(n, "insufficient results")

\* C15: with fewer than batch_size requests pending, the pending batch is
\* dispatched when batch_timeout has elapsed since its first request was
\* submitted: no request stays pending for longer, and a dispatch made on a
\* timeout happens batch_timeout after the first request of the batch.
C15_DispatchAtBatchTimeout ==
    /\ pending_requests # <<>> => bp_now - pending_requests[1].at <= BatchTimeoutCfg
    /\ \A n \in 1..Len(bp_calls) :
          bp_calls[n].trigger = "timeout" =>
              bp_calls[n].at - bp_calls[n].first_at = BatchTimeoutCfg

\* C16: a caller of add_request that is back has the result the processor
\* function produced for its own payload, or raises the error the processor
\* function raised (or 'insufficient results' when no result was produced for
\* it), on the timeout path and with a slow processor function too.
C16_CallerGetsOwnOutcome ==
    \A c \in Callers :
        Back(c) =>
            \E n \in 1..Len(bp_calls) : \E i \in 1..Len(bp_calls[n].payloads) :
                /\ bp_calls[n].payloads[i] = c
                /\ \/ /\ bp_calls[n].outcome = "returned" /\ i <= bp_calls[n].r
                      /\ bp_ret[c] = Returned(n, i - 1)
                   \/ /\ bp_calls[n].outcome = "returned" /\ i > bp_calls[n].r
                      /\ bp_ret[c] = Raised_(n, "insufficient results")
                   \/ /\ bp_calls[n].outcome = "raised"
                      /\ bp_ret[c] = Raised_(n, "BatchError")

\* C17: once flush() has returned, no request submitted before it was called is
\* pending, and the future of each is resolved with a result or an error; a
\* flush() that finds nothing pending changes nothing.
C17_FlushLeavesNothing ==
    bp_pc[Flusher] = "done" =>
        /\ \A c \in bp_flush.before :
              /\ \A i \in 1..Len(pending_requests) : pending_requests[i].data # c
              /\ bp_future[c].st \in {"result", "exception"}
        /\ bp_flush.empty => ~bp_flush.changed

-----------------------------------------------------------------------------
(* Claims about BedrockLLMProvider and BedrockVisionProvider *)

\* the tasks whose invocation of the remote model is under way
InFlight == {t \in Tasks : pv_pc[t] = "invoking"}

\* C18: at every moment at most max_concurrent_requests invocations of the
\* remote model are in flight through one provider, whatever the number of
\* callers, retried attempts included.
C18_InFlightBounded == Cardinality(InFlight) <= pv_max

C18_Witness ==
    /\ pv_kind = "llm"
    /\ pv_max = 2
    /\ Cardinality(InFlight) = 2
    /\ pv_waiters # <<>>
    /\ \E t \in InFlight : pv_attempt[t] = 1

\* C19: a call whose request is identical to that of an earlier call that
\* succeeded (no time has passed, so within any TTL) returns the stored result
\* and invokes the remote model not once.
C19_RepeatServedFromStore ==
    \A t \in Tasks :
        pv_seen[t] => \A i \in 1..Len(pv_trace[t]) : pv_trace[t][i] # "invoke"

\* C20: every invocation of the remote model is preceded, in this order, by the
\* acquisition of a concurrency permit and of a rate-limit token by the same
\* call.
C20_PermitThenToken ==
    \A t \in Tasks : \A i \in 1..Len(pv_trace[t]) :
        pv_trace[t][i] = "invoke" =>
            \E j \in 1..Len(pv_trace[t]) : \E k \in 1..Len(pv_trace[t]) :
                /\ j < k /\ k < i
                /\ pv_trace[t][j] = "permit"
                /\ pv_trace[t][k] = "token"

-----------------------------------------------------------------------------
(* Claims about BedrockEmbeddingProvider *)

\* C21: when the remote call behind an operation fails for good (a
\* non-retryable error, or retries exhausted), the caller observes an error:
\* the operation does not return, with a substitute value in place of the
\* failure.
C21_FailureSurfaces == em_failed # {} => em_pc # "returned"

-----------------------------------------------------------------------------
(* Claims about the retries of complete and analyze_image *)

RECURSIVE Count(_, _)
Count(seq, x) ==
    IF seq = <<>> THEN 0
    ELSE (IF Head(seq) = x THEN 1 ELSE 0) + Count(Tail(seq), x)

\* how often the call of task t has invoked the remote model
Invocations(t) == Count(pv_trace[t], "invoke")

\* the failures of the remote call that are of a transient kind
Transient(error) ==
    \/ /\ error.cls = "ClientError"
       /\ error.code \in {"ThrottlingException", "ServiceUnavailableException",
                          "InternalServerException", "ModelTimeoutException",
                          "ModelNotReadyException"}
    \/ error.cls = "ConnectionError"

\* C22: a remote failure of a transient kind makes complete (analyze_image)
\* invoke the remote model again, up to max_attempts invocations in all: a call
\* that raised after a transient failure has made max_attempts invocations;
\* only a transient failure is followed by another invocation.
C22_TransientIsRetried ==
    \A t \in Tasks :
        /\ pv_pc[t] = "sleeping" => Transient(pv_error[t][1])
        /\ (pv_ret[t] = "raised" /\ Transient(pv_error[t][1]))
               => Invocations(t) = PvMaxAttempts

-----------------------------------------------------------------------------
(* Claims about complete_batch *)

\* C23: complete_batch(prompts) returns a list as long as prompts; element i is
\* the completion of prompt i when its completion succeeded and an error-tagged
\* element when it failed, whatever became of the other prompts.
C23_ElementPerPrompt ==
    cb_pc = "returned" =>
        /\ Len(cb_ret[1]) = Len(cb_prompts)
        /\ \A i \in 1..Len(cb_prompts) :
              IF cb_results[i].st = "returned"
              THEN cb_ret[1][i] = Completion(i, cb_prompts[i])
              ELSE cb_ret[1][i][1] = "Error: "

\* complete_batch has returned a list in which a failed prompt stands before a
\* completed one
C23_Witness ==
    /\ cb_pc = "returned"
    /\ \E i, j \in 1..Len(cb_prompts) :
          /\ i < j
          /\ cb_results[i].st = "raised"
          /\ cb_results[j].st = "returned"
          /\ cb_ret[1][j] = Completion(j, cb_prompts[j])

-----------------------------------------------------------------------------
(* Claims about entries put with no ttl *)

\* C24 as stated: an entry put with ttl = None never becomes absent because
\* of elapsed time: a get of it returns its value and cleanup_expired leaves
\* it in the cache, however much time has passed.
C24_Original ==
    lastOp.op \in {"get", "cleanup_expired"} =>
        /\ lastOp.nottl \subseteq DOMAIN cache
        /\ (lastOp.op = "get" /\ lastOp.nottl # {}) => lastOp.ret = lastOp.expect

\* C24 amended: an entry put with ttl = None has the ttl default_ttl: get
\* returns its value and cleanup_expired leaves it in the cache as long as no
\* more than default_ttl has elapsed since the put, and it is gone after a
\* get or a cleanup_expired later than that.
C24_Amended ==
    lastOp.op \in {"get", "cleanup_expired"} =>
        /\ lastOp.nottl \cap DOMAIN cache = lastOp.kept
        /\ (lastOp.op = "get" /\ lastOp.nottl # {}) =>
               lastOp.ret = (IF lastOp.kept # {} THEN lastOp.expect ELSE None)

\* a get of an entry put with ttl = None found it gone, and a
\* cleanup_expired can keep one such entry and remove another
C24_Witness ==
    \/ /\ lastOp.op = "get"
       /\ lastOp.nottl # {}
       /\ lastOp.kept = {}
       /\ lastOp.ret = None
       /\ now > DefaultTtlCfg
    \/ /\ lastOp.op = "cleanup_expired"
       /\ lastOp.kept # {}
       /\ lastOp.nottl # lastOp.kept

-----------------------------------------------------------------------------
(* Claims about a get that finds nothing *)

\* the step is a call of get(k)
GetStep(k) == lastOp'.op = "get" /\ lastOp'.key = k /\ now' = now

\* k is stored and more than its ttl has elapsed since it was stored
PresentExpired(k) ==
    /\ k \in DOMAIN cache
    /\ cache[k].ttl # None
    /\ now - cache[k].timestamp > cache[k].ttl[1]

\* C30: get(k) on a present but expired entry returns absent, removes k from
\* the mapping and from the recency list and increments no access counter;
\* get(k) on an absent key returns absent and leaves the cache as it was.
C30_GetOfNothing ==
    [][\A k \in Keys :
          GetStep(k) =>
             /\ PresentExpired(k) =>
                   /\ lastOp'.ret = None
                   /\ DOMAIN cache' = DOMAIN cache \ {k}
                   /\ \A j \in DOMAIN cache' : cache'[j] = cache[j]
                   /\ access_order' = SelectSeq(access_order, LAMBDA x : x # k)
             /\ k \notin DOMAIN cache =>
                   /\ lastOp'.ret = None
                   /\ cache' = cache
                   /\ access_order' = access_order]_vars

\* get(k) has found an expired entry and removed it, another key being stored
C30_Witness ==
    /\ lastOp.op = "get"
    /\ lastOp.hist = "elapsed"
    /\ lastOp.ret = None
    /\ lastOp.key \notin DOMAIN cache
    /\ cache # <<>>

-----------------------------------------------------------------------------
(* Claims about the rate of BedrockRateLimiter *)

\* the calls of acquire() that have returned
ReturnedCalls == {i \in 1..Len(rl_log) : rl_log[i].ret # None}

\* C25: the number of acquire() calls that have returned by time t is at most
\* burst_size + requests_per_second * t (both sides times RpsDen).
C25_NoDoubleSpend ==
    Cardinality(ReturnedCalls) * RpsDen <= Capacity + RpsNum * rl_now

-----------------------------------------------------------------------------
(* More claims about BedrockBatchProcessor *)

\* C26: every request of a call of the processor function that is over has a
\* future resolved with a result or an error (and, a resolved future being
\* kept as it is, resolved once).
C26_ResolvedOnce ==
    \A n \in 1..Len(bp_calls) :
        bp_calls[n].outcome # "running" =>
            \A i \in 1..Len(bp_calls[n].payloads) :
                bp_future[bp_calls[n].payloads[i]].st \in {"result", "exception"}

\* C27: while a processor function is executing, a task that calls add_request
\* is not kept waiting: its request enters the pending requests at once.
C27_SubmissionDoesNotWait ==
    Running => \A c \in Callers : bp_pc[c] # "lock"

\* the caller of c gave up its request while it was pending
Abandoned(c) == bp_ret[c].st = "abandoned"

\* C28: a request whose future is cancelled before its batch is dispatched is
\* removed from the pending requests, and the other requests of its batch still
\* get the results of the processor function at their own indices.
C28_CancelledLeavesBatch ==
    \A c \in Callers :
        Abandoned(c) =>
            /\ ~Pending(c)
            /\ \A n \in 1..Len(bp_calls) :
                  ((\E i \in 1..Len(bp_calls[n].payloads) : bp_calls[n].payloads[i] = c)
                   /\ bp_calls[n].outcome = "returned") =>
                      \A j \in 1..Len(bp_calls[n].payloads) :
                          LET d == bp_calls[n].payloads[j]
                          IN  (d # c /\ j <= bp_calls[n].r /\ bp_future[d].st # "cancelled")
                                  => bp_future[d] = FutResult(n, j - 1)

\* calls n and m of processor functions come from one dispatch
SameDispatch(n, m) ==
    /\ n # m
    /\ bp_calls[n].batch = bp_calls[m].batch
    /\ bp_calls[n].processor # bp_calls[m].processor

\* C29: when one dispatch holds requests for two processor functions and one
\* of them raises, the requests of the other are resolved with the results
\* their own processor function returned (a request its caller gave up while
\* it was pending is left aside).
C29_OtherProcessorUnaffected ==
    \A n, m \in 1..Len(bp_calls) :
        (SameDispatch(n, m) /\ bp_calls[m].outcome = "raised"
                            /\ bp_calls[n].outcome = "returned") =>
            \A i \in 1..Len(bp_calls[n].payloads) :
                (i <= bp_calls[n].r /\ ~Abandoned(bp_calls[n].payloads[i])) =>
                    bp_future[bp_calls[n].payloads[i]] = FutResult(n, i - 1)

-----------------------------------------------------------------------------
(* Claims about the sweep of expired entries *)

\* the step is a call of cleanup_expired()
CleanupStep == lastOp'.op = "cleanup_expired" /\ now' = now

\* the keys stored whose ttl has elapsed
Elapsed == {k \in DOMAIN cache : PresentExpired(k)}

\* C31: cleanup_expired() removes every entry whose ttl has elapsed and no
\* other, returns the number of entries it removed, and leaves the values,
\* the access counters and the relative recency order of the others as they
\* were.
C31_SweepRemovesElapsedOnly ==
    [][CleanupStep =>
          /\ DOMAIN cache' = DOMAIN cache \ Elapsed
          /\ lastOp'.ret = Some(Cardinality(Elapsed))
          /\ \A k \in DOMAIN cache' : cache'[k] = cache[k]
          /\ access_order' = SelectSeq(access_order, LAMBDA x : x \notin Elapsed)]_vars

\* a cleanup_expired() has removed an entry and kept another, which was read
\* before
C31_Witness ==
    /\ lastOp.op = "cleanup_expired"
    /\ lastOp.ret = Some(1)
    /\ Cardinality(DOMAIN cache) = 1
    /\ \E k \in DOMAIN cache : cache[k].access_count > 0

-----------------------------------------------------------------------------
(* Claims about the sleeps of execute_with_retry *)

\* C32: a backoff sleep occurs only between a retryable failure and the next
\* attempt: the i-th sleep follows the i-th invocation, which failed with a
\* retryable error, and is computed for attempt index i-1; a run that ends,
\* by a success, a non-retryable failure or the failure of the last attempt,
\* has slept once per invocation but the last.
C32_SleepsBetweenAttempts ==
    /\ \A i \in 1..Len(r_sleeps) :
          /\ r_sleeps[i].attempt = i - 1
          /\ i <= r_ncalls
          /\ Outcome(r_script, i) \in RetryableKinds
          /\ i < r_max_attempts
    /\ r_pc \in {"returned", "raised"} => Len(r_sleeps) = r_ncalls - 1
    /\ r_pc \in {"attempt", "sleeping"} => Len(r_sleeps) = r_ncalls

\* two retryable failures, two sleeps, then the success
C32_Witness ==
    /\ r_pc = "returned"
    /\ r_ncalls = 3
    /\ Len(r_sleeps) = 2
    /\ r_sleeps[2].attempt = 1

-----------------------------------------------------------------------------
(* Claims about the jitter of calculate_backoff *)

\* C33: calculate_backoff(n) is min(max_backoff, backoff_factor^n + jitter)
\* with jitter between 0.1 and 0.3 times backoff_factor^n: the delay never
\* exceeds max_backoff, is never below min(max_backoff, 1.1 * backoff_factor^n),
\* and so is never below the unjittered delay min(max_backoff, backoff_factor^n).
C33_JitterLengthens ==
    b_out # None =>
        LET cap == 100 * b_in.max_backoff
            jit == (b_out[1].jitter * BaseDelay) \div 100
        IN  /\ 10 * BaseDelay <= 100 * jit
            /\ 100 * jit <= 30 * BaseDelay
            /\ b_out[1].delay = MinOf(cap, BaseDelay + jit)
            /\ b_out[1].delay <= cap
            /\ 100 * b_out[1].delay >= MinOf(100 * cap, 110 * BaseDelay)
            /\ b_out[1].delay >= MinOf(cap, BaseDelay)

\* the smallest jitter, below the cap: the delay is 1.1 * backoff_factor^n
C33_Witness ==
    /\ b_out # None
    /\ b_in.attempt > 0
    /\ b_out[1].jitter = 10
    /\ 100 * b_out[1].delay = 110 * BaseDelay
    /\ b_out[1].delay < 100 * b_in.max_backoff

-----------------------------------------------------------------------------
(* Claims about should_retry *)

\* the errors of the kinds rate-limit, service-unavailable, internal-service,
\* timeout and model-not-ready
TransientKinds ==
    {ClientError(code) : code \in RetryableErrorsDefault} \cup
    {Raised("BedrockRateLimitError"), Raised("BedrockServiceError"),
     Raised("BedrockTimeoutError"), Raised("ConnectionError"), Raised("TimeoutError")}

\* the validation, access-denied, authentication and configuration errors
PermanentKinds ==
    {ClientError("ValidationException"), ClientError("AccessDeniedException"),
     ClientError("UnrecognizedClientException"),
     Raised("BedrockAuthenticationError"), Raised("BedrockConfigurationError")}

\* C34: should_retry returns True for every rate-limit, service-unavailable,
\* internal-service, timeout and model-not-ready error, the package's own
\* timeout and service error types and the builtin connection and timeout
\* errors included, and False for every validation, access-denied,
\* authentication and configuration error.
C34_RetryableKinds ==
    sr_out # None =>
        /\ sr_error \in TransientKinds => sr_out = Some(TRUE)
        /\ sr_error \in PermanentKinds => sr_out = Some(FALSE)

-----------------------------------------------------------------------------
(* Claims about BedrockPerformanceMonitor *)

\* the last n elements of s
LastN(s, n) == SubSeq(s, Len(s) - n + 1, Len(s))

\* C36: after any sequence of record_request calls the latency window holds
\* at most max_history samples, and they are the most recent
\* min(count, max_history) latencies in the order they were recorded; reset()
\* empties the window.
C36_WindowIsMostRecent ==
    /\ Len(request_times) <= MaxHistoryCfg
    /\ Len(request_times) = MinOf(Len(mon_recorded), MaxHistoryCfg)
    /\ request_times = LastN(mon_recorded, Len(request_times))
    /\ mon_op.op = "reset" => request_times = <<>>

\* three latencies recorded, the oldest was dropped
C36_Witness ==
    /\ mon_op.op = "record_request"
    /\ mon_recorded = <<1, 2, 1>>
    /\ request_times = <<2, 1>>

Counters == DOMAIN MetricsInit

\* C40: in every reachable state total_requests = successful_requests +
\* failed_requests = cache_hits + cache_misses; no counter decreases under
\* record_request, record_rate_limit or get_stats; reset() sets every counter
\* to 0.
C40_CountersAddUp ==
    /\ [](/\ metrics.total_requests = metrics.successful_requests + metrics.failed_requests
          /\ metrics.total_requests = metrics.cache_hits + metrics.cache_misses)
    /\ [][/\ mon_op'.op # "reset" => \A key \in Counters : metrics'[key] >= metrics[key]
          /\ mon_op'.op = "reset" => \A key \in Counters : metrics'[key] = 0]_vars

\* a success served from the cache, a failure that was not, one rate limit hit
C40_Witness ==
    /\ mon_op.op = "get_stats"
    /\ mon_op.ret.metrics = metrics
    /\ metrics.total_requests = 2
    /\ metrics.successful_requests = 1
    /\ metrics.cache_hits = 1
    /\ metrics.rate_limit_hits = 1

-----------------------------------------------------------------------------
(* Claims about the permits of the providers *)

\* the tasks whose call holds a permit
Holding == {t \in Tasks : pv_pc[t] \in {"granted", "invoking", "sleeping"}}

\* the tasks whose call is in progress
InProgress == {t \in Tasks : pv_pc[t] \in {"waiting", "granted", "invoking", "sleeping"}}

\* C35: every permit acquired by complete() or analyze_image() is released
\* when the call ends, by a result, by an error raised after the retries or by
\* cancellation in the remote call or the backoff delay: the permits that are
\* not available are held by calls in progress, a call that is over has
\* released the permit it got, and when no call is in progress all
\* max_concurrent_requests permits are available.
C35_PermitsReleased ==
    /\ pv_value + Cardinality(Holding) = pv_max
    /\ \A t \in Tasks :
          pv_pc[t] = "done" =>
              Count(pv_trace[t], "permit") = Count(pv_trace[t], "release")
    /\ InProgress = {} => pv_value = pv_max

\* three calls are over: one returned, one raised after a retry, one was
\* cancelled in its backoff delay; every permit is back
C35_Witness ==
    /\ InProgress = {}
    /\ pv_value = pv_max
    /\ \E t \in Tasks : pv_ret[t] = "returned"
    /\ \E t \in Tasks : pv_ret[t] = "raised" /\ Count(pv_trace[t], "sleep") > 0
    /\ \E t \in Tasks :
          /\ pv_ret[t] = "cancelled"
          /\ pv_trace[t] = <<"permit", "invoke", "sleep", "cancel", "release">>

-----------------------------------------------------------------------------
(* Claims about the dispatches of BedrockBatchProcessor *)

\* the batch calls of the dispatch that call n belongs to, for processor p
CallsFor(n, p) ==
    {m \in 1..Len(bp_calls) :
        bp_calls[m].batch = bp_calls[n].batch /\ bp_calls[m].processor = p}

\* C37: the size-triggered dispatch fires when the number of pending requests
\* of all processor functions together reaches batch_size, so fewer than
\* batch_size requests are ever left pending; the dispatch issues exactly one
\* batch call per distinct processor function of its requests, each with that
\* processor's payloads only, in submission order, and no batch call carries
\* more than batch_size payloads.
C37_SizeDispatchPerProcessor ==
    /\ Len(pending_requests) < BatchSizeCfg
    /\ \A n \in 1..Len(bp_calls) :
          /\ Len(bp_calls[n].payloads) <= BatchSizeCfg
          /\ bp_calls[n].trigger = "size" =>
                /\ Len(bp_calls[n].batch) = BatchSizeCfg
                /\ \A i \in 1..Len(bp_calls[n].batch) :
                      Cardinality(CallsFor(n, processor_func[bp_calls[n].batch[i]])) = 1
                /\ processor_func[bp_calls[n].payloads[1]] = bp_calls[n].processor
                /\ bp_calls[n].payloads =
                      SelectSeq(bp_calls[n].batch,
                                LAMBDA c : processor_func[c] = bp_calls[n].processor)
                /\ InSubmissionOrder(bp_calls[n].batch)

\* a dispatch by size whose requests are for two processor functions: neither
\* has batch_size requests of its own, each gets one batch call
C37_Witness ==
    \E n \in 1..Len(bp_calls) : \E m \in 1..Len(bp_calls) :
        /\ SameDispatch(n, m)
        /\ bp_calls[n].trigger = "size"
        /\ Len(bp_calls[n].payloads) < BatchSizeCfg
        /\ Len(bp_calls[m].payloads) < BatchSizeCfg

\* how many times the request of caller c was passed to a processor function
TimesPassed(c) ==
    LET InCall(n) == Count(bp_calls[n].payloads, c)
        RECURSIVE Sum(_)
        Sum(n) == IF n = 0 THEN 0 ELSE InCall(n) + Sum(n - 1)
    IN  Sum(Len(bp_calls))

\* the request of caller c has been appended to self.pending_requests
Appended(c) == bp_pc[c] \notin {"idle", "lock"}

\* C38: under any interleaving of add_request calls, timeouts and flush calls,
\* a request is passed to its processor function in at most one batch call,
\* and by that processor's call; a request that was appended to the pending
\* requests is either still pending or was passed to a batch call, never
\* neither and never both.
C38_PassedAtMostOnce ==
    \A c \in Callers :
        /\ TimesPassed(c) <= 1
        /\ Count([i \in 1..Len(pending_requests) |-> pending_requests[i].data], c) <= 1
        /\ \A n \in 1..Len(bp_calls) :
              Count(bp_calls[n].payloads, c) > 0 =>
                  bp_calls[n].processor = processor_func[c]
        /\ Appended(c) => (Pending(c) <=> TimesPassed(c) = 0)
        /\ ~Appended(c) => ~Pending(c) /\ TimesPassed(c) = 0

\* three requests were submitted and a flush was made: two went out in a
\* dispatch by size, the third in a later dispatch, nothing is pending
C38_Witness ==
    /\ pending_requests = <<>>
    /\ bp_pc[Flusher] # "idle"
    /\ \A c \in Callers : TimesPassed(c) = 1
    /\ \E n \in 1..Len(bp_calls) : bp_calls[n].trigger = "size"
    /\ \E n \in 1..Len(bp_calls) : bp_calls[n].trigger # "size"

-----------------------------------------------------------------------------
(* Claims about the lock of BedrockRateLimiter *)

Sleeping == {p \in Procs : rl_pc[p] = "sleeping"}

\* a step in which a caller enters the critical section of acquire()
Admission == Len(rl_log') = Len(rl_log) + 1

\* C39: concurrent acquire() callers are admitted one at a time, in the order
\* of their arrival: a caller suspended in the wait for a token holds the
\* lock; while it does, the bucket is neither read nor changed and nobody is
\* admitted; the caller admitted is the one that waited longest, or one that
\* arrives while nobody waits.
C39_OneAtATimeInArrivalOrder ==
    /\ [](/\ \A p \in Sleeping : rl_holder = Some(p)
          /\ Cardinality(Sleeping) <= 1)
    /\ [][/\ rl_holder # None =>
                /\ rl_holder' \in {rl_holder, None}
                /\ ~Admission
                /\ rl_holder' = rl_holder =>
                      /\ rl_tokens' = rl_tokens
                      /\ rl_last_update' = rl_last_update
                      /\ rl_log' = rl_log
          /\ Admission =>
                LET p == rl_log'[Len(rl_log')].p
                IN  \/ rl_waiters = <<>> /\ rl_waiters' = <<>> /\ rl_pc[p] = "idle"
                    \/ /\ rl_waiters # <<>>
                       /\ Head(rl_waiters) = p
                       /\ rl_waiters' = Tail(rl_waiters)
          /\ rl_waiters' # rl_waiters =>
                \/ rl_waiters # <<>> /\ rl_waiters' = Tail(rl_waiters)
                \/ \E q \in Procs : rl_waiters' = Append(rl_waiters, q)]_vars

\* one caller has slept for a tick with the lock, another queues behind it
\* and has not been admitted
C39_Witness ==
    /\ rl_holder # None
    /\ Sleeping = {rl_holder[1]}
    /\ rl_now > rl_sleep[1].since
    /\ Len(rl_waiters) = 1
    /\ rl_log[Len(rl_log)].p = rl_holder[1]

====
